---- MODULE Spec2Model ----
(***************************************************************************)
(* A model of go-gpiosim: the configfs lifecycle of a Sim (NewSim /        *)
(* builder.live / Sim.setupConfigfs / Sim.cleanupConfigfs / Sim.Close),    *)
(* the naming counter, the per-line sysfs operations of a Chip, and        *)
(* Simpleton, the Sim of one chip.                                         *)
(*                                                                         *)
(* The file system is shared state: `dirs` holds the configfs directories, *)
(* `attrs` the values stored by attribute writes, `sysattr` the per-line   *)
(* sysfs attributes of live chips.  Every system call of the code is one   *)
(* step of the calling process; a call may fail for a reason outside the   *)
(* program (an injected fault, counted in `faults`).                       *)
(***************************************************************************)
EXTENDS Integers, Sequences, FiniteSets, TLC

VARIABLES
    dirs,        \* configfs directories that exist (paths)
    attrs,       \* configfs attribute values stored by the kernel: <<path, attr>> -> string
    sysattr,     \* sysfs line attributes written so far: <<path, attr>> -> string
    simCounter,  \* var simCounter uint32
    faults,      \* number of system calls made to fail so far
    pc,          \* per process: position in the running call
    loc,         \* per process: the locals of the running call
    hdl,         \* per process: the *Sim or *Simpleton the caller holds (none: not held)
    ret,         \* per process: what the last call returned
    eff,         \* per process: what the running / last call did (history)
    snap,        \* the file system when the running / last call started (history)
    issued,      \* the counter values uniqueName has handed out (history)
    hist,        \* per sysfs line: the last call that wrote its pull (history)
    mode,        \* the scenario: "serial" (one goroutine makes the calls one after the
                 \* other), "race" (every caller is a goroutine), "lines" (the
                 \* goroutines also work the lines of the chips), "chips" (one
                 \* goroutine makes a Sim or a Simpleton and works its lines,
                 \* which a user of the device drives)
    calls,       \* number of NewSim and NewSimpleton calls made so far
    contested    \* the roots two calls of NewSim passed the name check on, both
                 \* before either returned (history)

vars ==
    <<dirs, attrs, sysattr, simCounter, faults, pc, loc, hdl, ret, eff, snap, issued, hist,
      mode, calls, contested>>

fsvars == <<dirs, attrs, sysattr>>

(***************************************************************************)
(* Bounds of the model.                                                    *)
(***************************************************************************)
MaxBanks == 2       \* longest bank sequence given to NewSim
MaxFaults == 1      \* system calls that may fail in one behaviour
MaxCalls == 2       \* calls of NewSim in one behaviour
MaxCounter == 2     \* names handed out by uniqueName in one behaviour

Procs == {1, 2}

Nil == "nil"

(***************************************************************************)
(* Strings.  A Go string is modelled as a sequence of tokens; a token is   *)
(* an atomic piece of text, a decimal digit or a white-space character.    *)
(***************************************************************************)
Digits == <<"0", "1", "2", "3", "4", "5", "6", "7", "8", "9">>

WhiteSpace == {" ", "\n", "\t"}

RECURSIVE Itoa(_)
\* fmt.Sprintf("%d", n)
Itoa(n) ==
    IF n < 0 THEN <<"-">> \o Itoa(0 - n)
    ELSE IF n < 10 THEN <<Digits[n + 1]>>
    ELSE Itoa(n \div 10) \o <<Digits[(n % 10) + 1]>>

DigitVal(t) == CHOOSE k \in 0..9 : Digits[k + 1] = t

IsDigit(t) == \E k \in 0..9 : Digits[k + 1] = t

RECURSIVE Atoi(_)
\* the kernel's parse of a decimal attribute (kstrtouint); -1 when it is not one
Atoi(ts) ==
    IF ts = <<>> \/ \E k \in 1..Len(ts) : ~IsDigit(ts[k]) THEN -1
    ELSE IF Len(ts) = 1 THEN DigitVal(ts[1])
    ELSE 10 * Atoi(SubSeq(ts, 1, Len(ts) - 1)) + DigitVal(ts[Len(ts)])

RECURSIVE Str(_)
\* the tokens of a string run together
Str(ts) == IF ts = <<>> THEN "" ELSE Head(ts) \o Str(Tail(ts))

RECURSIVE TrimLeft(_)
TrimLeft(ts) ==
    IF ts # <<>> /\ Head(ts) \in WhiteSpace THEN TrimLeft(Tail(ts)) ELSE ts

RECURSIVE TrimRight(_)
TrimRight(ts) ==
    IF ts # <<>> /\ ts[Len(ts)] \in WhiteSpace
    THEN TrimRight(SubSeq(ts, 1, Len(ts) - 1)) ELSE ts

\* strings.TrimSpace
TrimSpace(ts) == TrimLeft(TrimRight(ts))

(***************************************************************************)
(* The naming counter and uniqueName.                                      *)
(***************************************************************************)
\* A uint32 is kept as its two 16-bit halves <<high, low>>.
Half == 65536

U32Zero == <<0, 0>>

\* AddUint32 that loses the increment
AddUint32Lost(c) == c

\* atomic.AddUint32(&simCounter, 1): the counter after it, which is also the
\* value the call returns
AddUint32(c) ==
    IF c[2] + 1 < Half THEN <<c[1], c[2] + 1>> ELSE <<(c[1] + 1) % Half, 0>>

RECURSIVE ItoaU32(_)
\* fmt.Sprintf("%d", n) of a uint32, by long division of the halves by ten
ItoaU32(c) ==
    LET low == (c[1] % 10) * Half + c[2]
        quot == <<c[1] \div 10, low \div 10>>
        last == <<Digits[(low % 10) + 1]>>
    IN  IF quot = U32Zero THEN last ELSE ItoaU32(quot) \o last

AppName == "gpiosim.test"

Pid == 4242

\* uniqueName, given the value the counter took
uniqueName(n) == AppName \o "-p" \o Str(Itoa(Pid)) \o "-" \o Str(ItoaU32(n))

(***************************************************************************)
(* Paths.  A path is the sequence of its components; the first component   *)
(* is the mount point of the tree it lives in.                             *)
(***************************************************************************)
\* path.Join(p, c)
Join(p, c) == Append(p, c)

Parent(p) == SubSeq(p, 1, Len(p) - 1)

IsPrefix(p, q) == Len(p) <= Len(q) /\ SubSeq(q, 1, Len(p)) = p

DefaultConfigfs == <<"/sys/kernel/config/gpio-sim">>

SysfsPlatform == <<"/sys/devices/platform">>

Dev == <<"/dev">>

\* fmt.Sprintf("bank%d", i), fmt.Sprintf("line%d", o), fmt.Sprintf("sim_gpio%d", o)
BankDir(i) == "bank" \o Str(Itoa(i))

LineDir(o) == "line" \o Str(Itoa(o))

SimGpioDir(o) == "sim_gpio" \o Str(Itoa(o))

(***************************************************************************)
(* Banks, hogs and the options of NewBank and NewSim.                      *)
(***************************************************************************)
HogDirectionInput == 0

HogDirectionOutputLow == 1

HogDirectionOutputHigh == 2

\* a HogDirection that is none of the constants
HogDirectionUnknown == 7

HogDirections ==
    {HogDirectionInput, HogDirectionOutputLow, HogDirectionOutputHigh, HogDirectionUnknown}

LevelInactive == 0

LevelActive == 1

\* a Go map with no entry
EmptyMap == <<>>

\* m[k] = v on a Go map
MapPut(m, k, v) == [x \in DOMAIN m \cup {k} |-> IF x = k THEN v ELSE m[x]]

WithNamedLine(offset, name) == [kind |-> "NamedLine", Offset |-> offset, Name |-> name]

WithHoggedLine(offset, consumer, direction) ==
    [kind |-> "HoggedLine", offset |-> offset,
     Hog |-> [Consumer |-> consumer, Direction |-> direction]]

applyBankOption(o, b) ==
    IF o.kind = "NamedLine"
    THEN [b EXCEPT !.Names = MapPut(@, o.Offset, o.Name)]
    ELSE [b EXCEPT !.Hogs = MapPut(@, o.offset, o.Hog)]

RECURSIVE ApplyBankOptions(_, _)
ApplyBankOptions(options, b) ==
    IF options = <<>> THEN b
    ELSE ApplyBankOptions(Tail(options), applyBankOption(Head(options), b))

NewBank(label, numLines, options) ==
    ApplyBankOptions(options,
        [NumLines |-> numLines, Label |-> label, Names |-> EmptyMap, Hogs |-> EmptyMap])

WithName(name) == [kind |-> "Name", name |-> name]

WithBank(b) == [kind |-> "Bank", bank |-> b]

applySimOption(o, b) ==
    IF o.kind = "Name"
    THEN [b EXCEPT !.name = o.name]
    ELSE [b EXCEPT !.banks = Append(@, o.bank)]

RECURSIVE ApplySimOptions(_, _)
ApplySimOptions(options, b) ==
    IF options = <<>> THEN b
    ELSE ApplySimOptions(Tail(options), applySimOption(Head(options), b))

\* builder{}
EmptyBuilder == [name |-> "", banks |-> <<>>]

\* a Chip before the kernel's identifiers are read back
NewChip(k) ==
    [cfg |-> k, devPath |-> <<>>, chipName |-> "", devName |-> "", sysfsPath |-> <<>>]

RECURSIVE ChipsOfReversed(_)
\* ChipsOf with every chip put in front of the ones before it
ChipsOfReversed(banks) ==
    IF banks = <<>> THEN <<>> ELSE ChipsOfReversed(Tail(banks)) \o <<NewChip(Head(banks))>>

RECURSIVE ChipsOf(_)
\* for _, k := range b.banks { s.Chips = append(s.Chips, Chip{cfg: k}) }
ChipsOf(banks) ==
    IF banks = <<>> THEN <<>> ELSE <<NewChip(Head(banks))>> \o ChipsOf(Tail(banks))

\* hogDirectionToString with a case for each constant and a default of its own
hogDirectionToStringStrict(d) ==
    IF d = HogDirectionOutputLow THEN "output-low"
    ELSE IF d = HogDirectionOutputHigh THEN "output-high"
    ELSE IF d = HogDirectionInput THEN "input"
    ELSE "unknown"

\* hogDirectionToString: switch d { ... default: return "input" }
hogDirectionToString(d) ==
    IF d = HogDirectionOutputLow THEN "output-low"
    ELSE IF d = HogDirectionOutputHigh THEN "output-high"
    ELSE "input"

(***************************************************************************)
(* The descriptions the callers of the model pass to NewSim.               *)
(***************************************************************************)
BankChoices ==
    { NewBank("left", 8, <<>>),
      NewBank("left", 8, <<WithNamedLine(3, "LED0"),
                           WithHoggedLine(2, "piggy", HogDirectionOutputLow)>>),
      NewBank("right", 42, <<WithNamedLine(3, "BUTTON2"), WithNamedLine(4, "LED2"),
                             WithHoggedLine(3, "hogster", HogDirectionOutputHigh)>>) }

RECURSIVE BankSeqs(_)
\* the sequences of at most n banks
BankSeqs(n) ==
    IF n = 0 THEN {<<>>}
    ELSE LET shorter == BankSeqs(n - 1)
         IN  shorter \cup {Append(q, k) : q \in {x \in shorter : Len(x) = n - 1}, k \in BankChoices}

RECURSIVE BankOptions(_)
BankOptions(banks) ==
    IF banks = <<>> THEN <<>> ELSE <<WithBank(Head(banks))>> \o BankOptions(Tail(banks))

NameOptions == {<<>>, <<WithName("gpiosim_test")>>}

\* the option lists process p may pass to NewSim in scenario m.  "serial": every
\* description for the first caller, the same name and one plain bank for the
\* others.  "race": both callers draw from the same few descriptions.  "lines":
\* one caller makes the Sim whose lines all of them work.  "chips": the first
\* caller makes a Sim of two chips, as TestNewSim does.  "solo": the same, with
\* a hog of every direction a HogDirection can hold.
Descriptions(m, p) ==
    IF m = "solo"
    THEN IF p = 1
         THEN {<<WithName("gpiosim_test"),
                 WithBank(NewBank("left", 8, <<WithNamedLine(3, "LED0"),
                                               WithHoggedLine(2, "piggy", d)>>)),
                 WithBank(NewBank("right", 42, <<>>))>> : d \in HogDirections}
         ELSE {}
    ELSE IF m = "chips"
    THEN IF p = 1
         THEN {<<WithName("gpiosim_test"),
                 WithBank(NewBank("left", 8, <<WithNamedLine(3, "LED0"),
                                               WithHoggedLine(2, "piggy", HogDirectionOutputLow)>>)),
                 WithBank(NewBank("right", 42, <<>>))>>}
         ELSE {}
    ELSE IF m = "serial" /\ p = 1
    THEN {n \o BankOptions(q) : n \in NameOptions \cup {<<WithName("")>>}, q \in BankSeqs(MaxBanks)}
    ELSE IF m = "serial"
    THEN {<<WithName("gpiosim_test"), WithBank(NewBank("left", 8, <<>>))>>}
    ELSE IF m = "lines"
    THEN IF p = 1
         THEN {<<WithName("gpiosim_test"),
                 WithBank(NewBank("left", 8, <<WithNamedLine(3, "LED0"),
                                               WithHoggedLine(2, "piggy", HogDirectionOutputLow)>>))>>}
         ELSE {}
    ELSE {n \o <<WithBank(NewBank("left", 8, <<WithNamedLine(3, "LED0"),
                                                 WithHoggedLine(2, "piggy", HogDirectionOutputLow)>>))>> :
             n \in NameOptions}

\* the banks among the options, in the order given
RECURSIVE BanksIn(_)
BanksIn(options) ==
    IF options = <<>> THEN <<>>
    ELSE (IF Head(options).kind = "Bank" THEN <<Head(options).bank>> ELSE <<>>)
         \o BanksIn(Tail(options))

(***************************************************************************)
(* The kernel side: configfs, the gpio-sim devices and their sysfs lines.  *)
(***************************************************************************)
\* []byte(value) of a string the program never parses
Bytes(str) == <<str>>

\* the kernel keeps a written attribute without the white space around it
KStore(text) == TrimSpace(text)

\* a read of an attribute yields its value and a newline
KShow(v) == v \o <<"\n">>

AttrKeys(a, path) == {k \in DOMAIN a : k[1] = path}

\* the attribute map after directory `path` is gone
DropAttrs(a, path) == [k \in DOMAIN a \ AttrKeys(a, path) |-> a[k]]

HasAttr(a, path, attr) == <<path, attr>> \in DOMAIN a

IsLive(a, root) == HasAttr(a, root, "live") /\ a[<<root, "live">>] = <<"1">>

\* the names the kernel gives a device and its chips
DevNameOf(root) == "gpio-sim." \o root[Len(root)]

ChipNameOf(bankPath) ==
    "gpiochip." \o bankPath[Len(bankPath) - 1] \o "." \o bankPath[Len(bankPath)]

\* the banks of the devices that are live: the chips that exist
LiveBanks(d, a) == {b \in d : Len(b) = 3 /\ IsLive(a, Parent(b))}

\* the number of lines of a bank as the kernel parsed it (1 when never written)
KNumLines(a, bankPath) ==
    IF HasAttr(a, bankPath, "num_lines") THEN Atoi(a[<<bankPath, "num_lines">>]) ELSE 1

SysfsPathOf(bankPath) ==
    Join(Join(SysfsPlatform, DevNameOf(Parent(bankPath))), ChipNameOf(bankPath))

\* the sysfs directory of a line exists while its chip is live
SysLineExists(d, a, path) ==
    \E b \in LiveBanks(d, a) :
        /\ Len(path) = 4
        /\ Parent(path) = SysfsPathOf(b)
        /\ \E o \in 0..(KNumLines(a, b) - 1) : path[4] = SimGpioDir(o)

\* the device file of a chip exists while the chip is live
DevFileExists(d, a, devPath) ==
    \E b \in LiveBanks(d, a) : devPath = Join(Dev, ChipNameOf(b))

\* the sysfs attributes that remain after configfs changed to (d, a)
Prune(d, a, sa) == [k \in {x \in DOMAIN sa : SysLineExists(d, a, x[1])} |-> sa[k]]

\* os.Mkdir succeeds when the parent exists and the directory does not
CanMkdir(d, path) == Parent(path) \in d /\ path \notin d

\* os.Remove of a directory succeeds when it exists and holds no directory
CanRemove(d, path) ==
    path \in d /\ ~\E q \in d : q # path /\ IsPrefix(path, q)

\* CanWrite for a write that makes the file wherever it is asked to
CanWriteAnywhere(d, a, path, attr, value) == TRUE

\* os.WriteFile on an attribute succeeds when its directory exists and the
\* kernel takes the value: the gpio-sim module refuses a write of live that
\* asks for the state the device is in already (EPERM)
CanWrite(d, a, path, attr, value) ==
    /\ path \in d
    /\ attr = "live" => (KStore(value) = <<"1">>) # IsLive(a, path)

\* what os.ReadFile yields for a configfs attribute
ConfigfsShow(d, a, path, attr) ==
    IF attr = "dev_name" THEN KShow(<<DevNameOf(path)>>)
    ELSE IF attr = "chip_name"
         THEN KShow(<<IF IsLive(a, Parent(path)) THEN ChipNameOf(path) ELSE "none">>)
    ELSE IF HasAttr(a, path, attr) THEN KShow(a[<<path, attr>>])
    ELSE KShow(<<>>)

\* the pull of a sysfs line: pull-down until it is written
KPull(sa, path) ==
    IF <<path, "pull">> \in DOMAIN sa THEN sa[<<path, "pull">>] ELSE <<"pull-down">>

\* the kernel takes a write to pull when it names one of the two pulls
KPullAccepts(text) == KStore(text) \in {<<"pull-up">>, <<"pull-down">>}

\* what os.ReadFile yields for a sysfs line attribute: a line that is not driven
\* is pulled down until its pull is written, and shows the level of its pull
SysfsShow(sa, path, attr) ==
    LET pull == KPull(sa, path)
    IN  IF <<path, attr>> \in DOMAIN sa THEN KShow(sa[<<path, attr>>])
        ELSE IF attr = "pull" THEN KShow(pull)
        ELSE KShow(IF pull = <<"pull-up">> THEN <<"1">> ELSE <<"0">>)

\* readAttr: the file's content without the white space around it
readAttr(data) == Str(TrimSpace(data))

(***************************************************************************)
(* Initial state.                                                          *)
(***************************************************************************)
NilSim == [Name |-> "", Chips |-> <<>>, configfsPath |-> <<>>]

\* what a caller holds before any call: no *Sim and no *Simpleton
NoHandle == [held |-> FALSE, s |-> NilSim, facade |-> FALSE]

\* os.MkdirAll has not started: at is the system call that is next ("stat",
\* "mkdir", "lstat") and k the length of the prefix of the path it is for
NoMk == [at |-> "start", k |-> 0]

LocInit ==
    [options |-> <<>>, b |-> EmptyBuilder, s |-> NilSim, i |-> 0, names |-> {}, hogs |-> {}, o |-> 0,
     devName |-> "", err |-> Nil, from |-> Nil, level |-> 0, was |-> <<>>, via |-> Nil, read |-> <<>>,
     loaded |-> FALSE, mk |-> NoMk]

EffInit == [ops |-> {}, created |-> {}, faultAt |-> {}]

RetInit ==
    [op |-> Nil, sim |-> FALSE, err |-> Nil, val |-> 0, line |-> <<>>, data |-> <<>>, rerr |-> FALSE,
     str |-> "", cfg |-> NewBank("", 0, <<>>), path |-> <<>>]

SnapInit == <<{}, <<>>, U32Zero>>

Start(m) ==
    /\ dirs = {}
    /\ attrs = <<>>
    /\ sysattr = <<>>
    /\ simCounter = U32Zero
    /\ faults = 0
    /\ pc = [p \in Procs |-> "idle"]
    /\ loc = [p \in Procs |-> LocInit]
    /\ hdl = [p \in Procs |-> NoHandle]
    /\ ret = [p \in Procs |-> RetInit]
    /\ eff = [p \in Procs |-> EffInit]
    /\ snap = [p \in Procs |-> SnapInit]
    /\ issued = <<>>
    /\ hist = <<>>
    /\ mode = m
    /\ calls = 0
    /\ contested = {}

\* one goroutine makes every call
Init == Start("serial")

\* every caller is a goroutine of its own
InitRace == Start("race")

(***************************************************************************)
(* Steps shared by the actions.                                            *)
(***************************************************************************)
\* how a system call may end: as the file system decides, or failing for an
\* outside reason while the fault budget lasts
Outcomes == IF faults < MaxFaults THEN {"ok", "fail"} ELSE {"ok"}

\* the fault budget after a call that ended f
Charge(f) == faults' = IF f = "ok" THEN faults ELSE faults + 1

\* the history of process p's call after one more step
Did(p, op, made, f) ==
    eff' = [eff EXCEPT ![p] =
                [ops |-> @.ops \cup {op},
                 created |-> @.created \cup made,
                 faultAt |-> IF f = "ok" THEN @.faultAt ELSE @.faultAt \cup {pc[p]}]]

\* the same for a system call of the teardown, whose failure for whatever
\* reason the history keeps too
DidOrFailed(p, op, ok, f) ==
    eff' = [eff EXCEPT ![p] =
                [ops |-> @.ops \cup {op} \cup (IF ok THEN {} ELSE {op \o " failed"}),
                 created |-> @.created,
                 faultAt |-> IF f = "ok" THEN @.faultAt ELSE @.faultAt \cup {pc[p]}]]

Goto(p, label) == pc' = [pc EXCEPT ![p] = label]

\* no other process is within a call
Alone(p) == \A q \in Procs \ {p} : pc[q] = "idle"

\* process p may take a step: one goroutine makes its calls one after the other
\* ("serial"; "chips", where the first caller makes them all)
Turn(p) == mode \in {"race", "lines"} \/ (Alone(p) /\ (mode \in {"chips", "solo"} => p = 1))

\* process p starts a call: the history keeps the calls that are running and,
\* once they have returned, the last one; the snapshot of the file system at
\* the start of the call is kept where calls run one after the other
Begin(p, what) ==
    /\ eff' = [q \in Procs |-> IF q = p THEN [EffInit EXCEPT !.ops = {what}]
                               ELSE IF pc[q] = "idle" THEN EffInit ELSE eff[q]]
    /\ ret' = [q \in Procs |-> IF q = p \/ pc[q] = "idle" THEN RetInit ELSE ret[q]]
    /\ snap' = [q \in Procs |-> IF q = p /\ mode # "race" THEN <<dirs, attrs, simCounter>>
                                ELSE IF pc[q] = "idle" THEN SnapInit ELSE snap[q]]

\* the call of process p returns: to the caller, or to NewSimpleton when it is
\* NewSimpleton that called NewSim
Return(p, op, sim, err) ==
    /\ pc' = [pc EXCEPT ![p] = IF loc[p].via = "NewSimpleton" THEN "simpleton" ELSE "idle"]
    /\ ret' = [ret EXCEPT ![p] = [RetInit EXCEPT !.op = op, !.sim = sim, !.err = err]]
    /\ loc' = [loc EXCEPT ![p] = [LocInit EXCEPT !.via = loc[p].via]]

\* bankPath under the root of the name the tests give, whatever the Sim's root
bankPathOfTestName(l) == Join(Join(DefaultConfigfs, "gpiosim_test"), BankDir(l.i - 1))

\* bankPath := path.Join(s.configfsPath, fmt.Sprintf("bank%d", i))
bankPath(l) == Join(l.s.configfsPath, BankDir(l.i - 1))

linePath(l) == Join(bankPath(l), LineDir(l.o))

hogPath(l) == Join(linePath(l), "hog")

cfgOf(l) == l.s.Chips[l.i].cfg

\* SetupNext that leaves out the loop over c.cfg.Hogs
SetupNextNoHogs(l) ==
    IF l.names # {} THEN "mkline"
    ELSE IF l.i < Len(l.s.Chips) THEN "mkbank"
    ELSE "wlive"

\* SetupNext with the loop over c.cfg.Hogs ahead of the loop over c.cfg.Names
SetupNextHogsFirst(l) ==
    IF l.hogs # {} THEN "mkhog"
    ELSE IF l.names # {} THEN "mkline"
    ELSE IF l.i < Len(l.s.Chips) THEN "mkbank"
    ELSE "wlive"

\* where setupConfigfs goes on after a step of bank l.i
SetupNext(l) ==
    IF l.names # {} THEN "mkline"
    ELSE IF l.hogs # {} THEN "mkhog"
    ELSE IF l.i < Len(l.s.Chips) THEN "mkbank"
    ELSE "wlive"

\* the locals when setupConfigfs goes on: the next bank when this one is done
SetupLoc(l) ==
    IF l.names = {} /\ l.hogs = {} /\ l.i < Len(l.s.Chips) THEN [l EXCEPT !.i = @ + 1] ELSE l

\* live: a step failed with err, so s.Close() runs before the error is returned
Rollback(p, l, err) ==
    /\ loc' = [loc EXCEPT ![p] = [l EXCEPT !.err = err, !.from = "NewSim"]]
    /\ Goto(p, "c_live0")

(***************************************************************************)
(* NewSim and builder.live up to the construction of the tree.             *)
(***************************************************************************)
\* NewSim applies the options to a builder and calls live
NewSim(p) ==
    /\ pc[p] = "idle"
    /\ Turn(p)
    /\ ~hdl[p].held \/ hdl[p].s.Chips = <<>>
    /\ \E options \in Descriptions(mode, p) :
          loc' = [loc EXCEPT ![p] = [LocInit EXCEPT !.options = options,
                                                    !.b = ApplySimOptions(options, EmptyBuilder),
                                                    !.from = "NewSim"]]
    /\ Goto(p, "live")
    /\ hdl' = [hdl EXCEPT ![p] = NoHandle]
    /\ Begin(p, "NewSim")
    /\ calls < MaxCalls
    /\ calls' = calls + 1
    /\ UNCHANGED <<fsvars, simCounter, faults, issued, hist, mode, contested>>

\* LiveNoBanks with the name made up before the banks are counted
LiveNoBanksAfterName(p) ==
    /\ pc[p] = "live"
    /\ Turn(p)
    /\ IF Len(loc[p].b.banks) = 0
       THEN /\ Return(p, "NewSim", FALSE, "no banks defined")
            /\ simCounter' = IF loc[p].b.name = "" THEN AddUint32(simCounter) ELSE simCounter
       ELSE Goto(p, "name") /\ UNCHANGED <<ret, loc, simCounter>>
    /\ UNCHANGED <<fsvars, faults, hdl, eff, snap, issued, hist, mode, calls, contested>>

\* live: no banks defined
LiveNoBanks(p) ==
    /\ pc[p] = "live"
    /\ Turn(p)
    /\ IF Len(loc[p].b.banks) = 0
       THEN Return(p, "NewSim", FALSE, "no banks defined")
       ELSE Goto(p, "name") /\ UNCHANGED <<ret, loc>>
    /\ UNCHANGED <<fsvars, simCounter, faults, hdl, eff, snap, issued, hist, mode, calls, contested>>

\* LiveName that makes up a name whatever name was supplied
LiveNameAlways(p) ==
    /\ pc[p] = "name"
    /\ Turn(p)
    /\ Len(issued) < MaxCounter
    /\ simCounter' = AddUint32(simCounter)
    /\ loc' = [loc EXCEPT ![p].b.name = uniqueName(simCounter')]
    /\ issued' = Append(issued, simCounter')
    /\ Did(p, "uniqueName", {}, "ok")
    /\ Goto(p, "find")
    /\ UNCHANGED <<fsvars, faults, hdl, ret, snap, hist, mode, calls, contested>>

\* if len(b.name) == 0 { b.name = uniqueName() }
LiveName(p) ==
    /\ pc[p] = "name"
    /\ Turn(p)
    /\ IF loc[p].b.name = ""
       THEN /\ Len(issued) < MaxCounter
            /\ simCounter' = AddUint32(simCounter)
            /\ loc' = [loc EXCEPT ![p].b.name = uniqueName(simCounter')]
            /\ issued' = Append(issued, simCounter')
            /\ Did(p, "uniqueName", {}, "ok")
       ELSE UNCHANGED <<simCounter, loc, issued, eff>>
    /\ Goto(p, "find")
    /\ UNCHANGED <<fsvars, faults, hdl, ret, snap, hist, mode, calls, contested>>

\* where configfs may be mounted: at the usual place, nowhere, or (where one
\* goroutine makes the calls, SpecSolo) somewhere unusual
MountPlaces == IF mode = "solo" THEN {"default", "other", "none"} ELSE {"default", "none"}

DefaultMount == "/sys/kernel/config"

OtherMount == "/config"

\* path.Join(configfs, "gpio-sim")
GpioSimAt(mount) == <<mount \o "/gpio-sim">>

\* the gpio-sim directory that appears when the module is loaded
LoadedAt(mp) ==
    IF mp = "default" THEN {GpioSimAt(DefaultMount)}
    ELSE IF mp = "other" THEN {GpioSimAt(OtherMount)}
    ELSE {}

\* where configfs is mounted, as far as the directories d and the end of
\* modprobe tell: a gpio-sim directory is where configfs is mounted, and a
\* module that is loaded with no directory to show has no configfs mounted
Mounted(d, loaded) ==
    {mp \in MountPlaces :
        /\ GpioSimAt(DefaultMount) \in d => mp = "default"
        /\ GpioSimAt(OtherMount) \in d => mp = "other"
        /\ (loaded /\ GpioSimAt(DefaultMount) \notin d
                   /\ GpioSimAt(OtherMount) \notin d) => mp = "none"}

\* the steps of findConfigfsPath and configfsMountPoint, one system call or
\* child process a step
FindSteps == {"find", "modprobe", "findloaded", "mounts", "mount", "findmounted"}

\* findConfigfsPath has found the path: live goes on to the check of the name
Found(p, configfs) ==
    /\ loc' = [loc EXCEPT ![p].s.configfsPath = configfs, ![p].loaded = FALSE]
    /\ Goto(p, "stat")
    /\ UNCHANGED ret

\* what findConfigfsPath does after its first os.Stat: "return" the default
\* path, or go on to "modprobe"; here it runs modprobe whatever the Stat found
AfterStatDefaultEager(found) == "modprobe"

\* what findConfigfsPath does after its first os.Stat: "return" the default
\* path when it exists, else go on to "modprobe"
AfterStatDefault(found) == IF found THEN "return" ELSE "modprobe"

\* configfs := "/sys/kernel/config/gpio-sim"; if _, err := os.Stat(configfs);
\* err == nil { return configfs, nil }
LiveFind(p) ==
    /\ pc[p] = "find"
    /\ Turn(p)
    /\ eff' = [eff EXCEPT ![p].ops = @ \cup {"findConfigfsPath", "stat default"}]
    /\ IF AfterStatDefault(DefaultConfigfs \in dirs) = "return"
       THEN Found(p, DefaultConfigfs)
       ELSE Goto(p, "modprobe") /\ UNCHANGED <<loc, ret>>
    /\ UNCHANGED <<fsvars, simCounter, faults, hdl, snap, issued, hist, mode, calls, contested>>

\* cmd := exec.Command("modprobe", "gpio-sim"); cmd.Run(): the command loads
\* the module (loaded), whose directory appears where configfs is mounted (mp),
\* or fails
FindModprobe(p) ==
    /\ pc[p] = "modprobe"
    /\ Turn(p)
    /\ \E loaded \in BOOLEAN : \E mp \in Mounted(dirs, FALSE) :
          /\ dirs' = IF loaded THEN dirs \cup LoadedAt(mp) ELSE dirs
          /\ eff' = [eff EXCEPT ![p].ops = @ \cup {"modprobe"}
                                               \cup (IF loaded THEN {} ELSE {"modprobe failed"})]
          /\ loc' = [loc EXCEPT ![p].loaded = loaded]
          /\ Goto(p, IF loaded THEN "findloaded" ELSE "mounts")
    /\ UNCHANGED <<attrs, sysattr, simCounter, faults, hdl, ret, snap, issued, hist, mode, calls, contested>>

\* modprobe ended well: if _, err := os.Stat(configfs); err == nil { return configfs, nil }
FindLoaded(p) ==
    /\ pc[p] = "findloaded"
    /\ Turn(p)
    /\ IF DefaultConfigfs \in dirs
       THEN Found(p, DefaultConfigfs)
       ELSE Goto(p, "mounts") /\ UNCHANGED <<loc, ret>>
    /\ UNCHANGED <<fsvars, simCounter, faults, hdl, eff, snap, issued, hist, mode, calls, contested>>

\* what findConfigfsPath returns when it has found nothing
NotLoaded(p) == Return(p, "NewSim", FALSE, "gpio-sim module not loaded")

\* the scan of /proc/mounts by configfsMountPoint with configfs mounted at mp,
\* the file opened or not: the mount point of the first configfs line, the
\* error of os.Open, or nothing found yet ("mount" comes next)
configfsMountPoint(mp, opened) ==
    IF ~opened THEN [configfs |-> "", err |-> "open /proc/mounts", next |-> "return"]
    ELSE IF mp = "default" THEN [configfs |-> DefaultMount, err |-> Nil, next |-> "return"]
    ELSE IF mp = "other" THEN [configfs |-> OtherMount, err |-> Nil, next |-> "return"]
    ELSE [configfs |-> "", err |-> Nil, next |-> "mount"]

\* configfsMountPoint: os.Open("/proc/mounts") and the scan of its lines; on
\* the error of os.Open findConfigfsPath has nothing to look at and fails
MountPointScan(p) ==
    /\ pc[p] = "mounts"
    /\ Turn(p)
    /\ \E f \in Outcomes : \E mp \in Mounted(dirs, loc[p].loaded) :
          LET m == configfsMountPoint(mp, f = "ok")
          IN  /\ Charge(f)
              /\ eff' = [eff EXCEPT ![p].ops = @ \cup (IF f = "ok" THEN {"scan mounts"}
                                                       ELSE {"open mounts failed"}),
                                    ![p].faultAt = IF f = "ok" THEN @ ELSE @ \cup {pc[p]}]
              /\ IF m.err # Nil THEN NotLoaded(p)
                 ELSE IF m.next = "mount" THEN Goto(p, "mount") /\ UNCHANGED <<loc, ret>>
                 ELSE /\ loc' = [loc EXCEPT ![p].s.configfsPath = GpioSimAt(m.configfs)]
                      /\ Goto(p, "findmounted")
                      /\ UNCHANGED ret
    /\ UNCHANGED <<fsvars, simCounter, hdl, snap, issued, hist, mode, calls, contested>>

\* configfsMountPoint, not mounted: exec.Command("mount", "-t", "configfs",
\* "configfs", configfs).Run(); the directory of a module that is loaded
\* appears with the mount
MountPointMount(p) ==
    /\ pc[p] = "mount"
    /\ Turn(p)
    /\ \E mountOk \in BOOLEAN :
          /\ eff' = [eff EXCEPT ![p].ops = @ \cup {"mount"}]
          /\ IF mountOk
             THEN /\ dirs' = IF loc[p].loaded THEN dirs \cup {GpioSimAt(DefaultMount)} ELSE dirs
                  /\ loc' = [loc EXCEPT ![p].s.configfsPath = GpioSimAt(DefaultMount)]
                  /\ Goto(p, "findmounted")
                  /\ UNCHANGED ret
             ELSE /\ NotLoaded(p)
                  /\ UNCHANGED dirs
    /\ UNCHANGED <<attrs, sysattr, simCounter, faults, hdl, snap, issued, hist, mode, calls, contested>>

\* configfs = path.Join(configfs, "gpio-sim"); if _, err := os.Stat(configfs);
\* err == nil { return configfs, nil }; return "", errors.New("gpio-sim module not loaded")
FindMounted(p) ==
    /\ pc[p] = "findmounted"
    /\ Turn(p)
    /\ IF loc[p].s.configfsPath \in dirs
       THEN Found(p, loc[p].s.configfsPath)
       ELSE NotLoaded(p)
    /\ UNCHANGED <<fsvars, simCounter, faults, hdl, eff, snap, issued, hist, mode, calls, contested>>

\* Exists for a check that never finds the path
ExistsNever(d, path) == FALSE

\* os.Stat(path) finds the path: err == nil
Exists(d, path) == path \in d

\* process q is within NewSim and has passed the name check on path
PastCheck(q, path) ==
    /\ loc[q].from = "NewSim"
    /\ pc[q] \notin {"idle", "live", "name", "stat"} \cup FindSteps
    /\ loc[q].s.configfsPath = path

\* the contested roots once process p has passed the name check on path
Contested(p, path) ==
    IF \E q \in Procs \ {p} : PastCheck(q, path) THEN contested \cup {path} ELSE contested

\* LiveStat without the check of the name
LiveStatNoCheck(p) ==
    /\ pc[p] = "stat"
    /\ Turn(p)
    /\ LET configfsPath == Join(loc[p].s.configfsPath, loc[p].b.name)
       IN  /\ loc' = [loc EXCEPT ![p].s = [Name |-> loc[p].b.name,
                                           Chips |-> ChipsOf(loc[p].b.banks),
                                           configfsPath |-> configfsPath],
                                 ![p].i = 1]
           /\ contested' = Contested(p, configfsPath)
    /\ Goto(p, "mkbank")
    /\ UNCHANGED <<fsvars, simCounter, faults, hdl, ret, eff, snap, issued, hist, mode, calls>>

\* live: the name must not exist; then the Sim and its chips are made
LiveStat(p) ==
    /\ pc[p] = "stat"
    /\ Turn(p)
    /\ LET configfsPath == Join(loc[p].s.configfsPath, loc[p].b.name)
       IN  IF Exists(dirs, configfsPath)
           THEN /\ Return(p, "NewSim", FALSE, "sim already exists")
                /\ UNCHANGED contested
           ELSE /\ loc' = [loc EXCEPT ![p].s = [Name |-> loc[p].b.name,
                                                Chips |-> ChipsOf(loc[p].b.banks),
                                                configfsPath |-> configfsPath],
                                      ![p].i = 1]
                /\ contested' = Contested(p, configfsPath)
                /\ Goto(p, "mkbank")
                /\ UNCHANGED ret
    /\ UNCHANGED <<fsvars, simCounter, faults, hdl, eff, snap, issued, hist, mode, calls>>

(***************************************************************************)
(* Sim.setupConfigfs, one system call a step.                              *)
(***************************************************************************)
\* os.MkdirAll(path) is a run of system calls: os.Stat of the path and, while
\* that finds nothing, of the directories above it; then os.Mkdir of every
\* directory from the first that was missing down to the path; and after an
\* os.Mkdir that failed, os.Lstat of its directory: one that is there (made by
\* somebody else meanwhile) counts as made, else the error is returned.
\* MkdirAllStart is the first call, MkdirAllNext the call after the one at m
\* has ended on directories d (ok: an os.Mkdir made its directory): at "nil"
\* and at "err" are the two returns.
MkdirAllStart(path) == [at |-> "stat", k |-> Len(path)]

MkdirAllNext(d, path, m, ok) ==
    LET here == SubSeq(path, 1, m.k)
        down == IF m.k = Len(path) THEN [at |-> "nil", k |-> m.k]
                ELSE [at |-> "mkdir", k |-> m.k + 1]
    IN  IF m.at = "stat"
        THEN IF here \in d THEN down
             ELSE IF m.k > 1 THEN [at |-> "stat", k |-> m.k - 1]
             ELSE [at |-> "mkdir", k |-> m.k]
        ELSE IF m.at = "mkdir"
        THEN IF ok THEN down ELSE [at |-> "lstat", k |-> m.k]
        ELSE IF here \in d THEN down ELSE [at |-> "err", k |-> m.k]

\* one system call of os.MkdirAll(path) in setupConfigfs, with locals l: when
\* it returns nil go to label next, when it returns an error roll back with err
SetupMkdirAll(p, l, path, next, err) ==
    LET m == IF l.mk = NoMk THEN MkdirAllStart(path) ELSE l.mk
        here == SubSeq(path, 1, m.k)
    IN  \E f \in (IF m.at = "mkdir" THEN Outcomes ELSE {"ok"}) :
           LET ok == m.at = "mkdir" /\ f = "ok" /\ CanMkdir(dirs, here)
               made == IF ok THEN {here} ELSE {}
               n == MkdirAllNext(dirs \cup made, path, m, ok)
           IN  /\ dirs' = dirs \cup made
               /\ Charge(f)
               /\ IF m.at = "mkdir" THEN Did(p, "mkdir", made, f) ELSE UNCHANGED eff
               /\ IF n.at = "nil"
                  THEN /\ loc' = [loc EXCEPT ![p] = [l EXCEPT !.mk = NoMk]]
                       /\ Goto(p, next)
                  ELSE IF n.at = "err"
                  THEN Rollback(p, [l EXCEPT !.mk = NoMk], err)
                  ELSE /\ loc' = [loc EXCEPT ![p] = [l EXCEPT !.mk = n]]
                       /\ UNCHANGED pc

\* writeAttr(path, attr, value) that succeeds
Written(a, path, attr, value) == (<<path, attr>> :> KStore(value)) @@ a

\* os.MkdirAll(bankPath, 0755), one of its system calls a step
SetupMkBank(p) ==
    /\ pc[p] = "mkbank"
    /\ Turn(p)
    /\ SetupMkdirAll(p, loc[p], bankPath(loc[p]), "wlabel", "mkdir bank")
    /\ UNCHANGED <<attrs, sysattr, simCounter, hdl, ret, snap, issued, hist, mode, calls, contested>>

\* a writeAttr of setupConfigfs on directory path; on success go to label next
\* with locals nl, on failure roll back with error err
SetupWrite(p, path, attr, value, next, nl, err) ==
    \E f \in Outcomes :
        LET ok == f = "ok" /\ CanWrite(dirs, attrs, path, attr, value)
        IN  /\ Charge(f)
            /\ Did(p, "write", {}, f)
            /\ IF ok
               THEN /\ attrs' = Written(attrs, path, attr, value)
                    /\ loc' = [loc EXCEPT ![p] = nl]
                    /\ Goto(p, next)
               ELSE /\ Rollback(p, loc[p], err)
                    /\ UNCHANGED attrs
            /\ UNCHANGED <<dirs, sysattr, simCounter, hdl, ret, snap, issued, hist, mode, calls, contested>>

\* writeAttr(bankPath, "label", c.cfg.Label)
SetupLabel(p) ==
    /\ pc[p] = "wlabel"
    /\ Turn(p)
    /\ SetupWrite(p, bankPath(loc[p]), "label", Bytes(cfgOf(loc[p]).Label),
                  "wnum", loc[p], "write label")

\* writeAttr(bankPath, "num_lines", fmt.Sprintf("%d", c.cfg.NumLines))
SetupNumLines(p) ==
    /\ pc[p] = "wnum"
    /\ Turn(p)
    /\ LET l == [loc[p] EXCEPT !.names = DOMAIN cfgOf(loc[p]).Names,
                               !.hogs = DOMAIN cfgOf(loc[p]).Hogs]
       IN  SetupWrite(p, bankPath(loc[p]), "num_lines", Itoa(cfgOf(loc[p]).NumLines),
                      SetupNext(l), SetupLoc(l), "write num_lines")

\* os.Mkdir(linePath, 0755) for one of the named lines still to do
SetupMkLine(p) ==
    /\ pc[p] = "mkline"
    /\ Turn(p)
    /\ \E o \in loc[p].names : \E f \in Outcomes :
          LET l == [loc[p] EXCEPT !.o = o, !.names = @ \ {o}]
              ok == f = "ok" /\ CanMkdir(dirs, linePath(l))
          IN  /\ Charge(f)
              /\ Did(p, "mkdir", IF ok THEN {linePath(l)} ELSE {}, f)
              /\ IF ok
                 THEN /\ dirs' = dirs \cup {linePath(l)}
                      /\ loc' = [loc EXCEPT ![p] = l]
                      /\ Goto(p, "wname")
                 ELSE /\ Rollback(p, l, "mkdir line")
                      /\ UNCHANGED dirs
    /\ UNCHANGED <<attrs, sysattr, simCounter, hdl, ret, snap, issued, hist, mode, calls, contested>>

\* writeAttr(linePath, "name", n)
SetupLineName(p) ==
    /\ pc[p] = "wname"
    /\ Turn(p)
    /\ SetupWrite(p, linePath(loc[p]), "name", Bytes(cfgOf(loc[p]).Names[loc[p].o]),
                  SetupNext(loc[p]), SetupLoc(loc[p]), "write line name")

\* SetupMkHog that makes the line directory with os.Mkdir, which fails on a
\* directory that exists
SetupMkHogMkdir(p) ==
    /\ pc[p] = "mkhog"
    /\ Turn(p)
    /\ \E o \in loc[p].hogs :
          LET l == [loc[p] EXCEPT !.o = o, !.hogs = @ \ {o}]
          IN  \E f \in Outcomes :
                 LET ok == f = "ok" /\ CanMkdir(dirs, linePath(l))
                     made == IF ok THEN {linePath(l), hogPath(l)} ELSE {}
                 IN  /\ dirs' = dirs \cup made
                     /\ Charge(f)
                     /\ Did(p, "mkdir", made, f)
                     /\ IF ok
                        THEN loc' = [loc EXCEPT ![p] = l] /\ Goto(p, "whogname")
                        ELSE Rollback(p, l, "mkdir hog")
    /\ UNCHANGED <<attrs, sysattr, simCounter, hdl, ret, snap, issued, hist, mode, calls, contested>>

\* os.MkdirAll(hogPath, 0755) for one of the hogged lines still to do, one of
\* its system calls a step: the first step takes the line
SetupMkHog(p) ==
    /\ pc[p] = "mkhog"
    /\ Turn(p)
    /\ \E o \in (IF loc[p].mk = NoMk THEN loc[p].hogs ELSE {loc[p].o}) :
          LET l == IF loc[p].mk = NoMk THEN [loc[p] EXCEPT !.o = o, !.hogs = @ \ {o}] ELSE loc[p]
          IN  SetupMkdirAll(p, l, hogPath(l), "whogname", "mkdir hog")
    /\ UNCHANGED <<attrs, sysattr, simCounter, hdl, ret, snap, issued, hist, mode, calls, contested>>

\* writeAttr(hogPath, "name", h.Consumer)
SetupHogName(p) ==
    /\ pc[p] = "whogname"
    /\ Turn(p)
    /\ SetupWrite(p, hogPath(loc[p]), "name", Bytes(cfgOf(loc[p]).Hogs[loc[p].o].Consumer),
                  "whogdir", loc[p], "write hog name")

\* writeAttr(hogPath, "direction", hogDirectionToString(h.Direction))
SetupHogDirection(p) ==
    /\ pc[p] = "whogdir"
    /\ Turn(p)
    /\ SetupWrite(p, hogPath(loc[p]), "direction",
                  Bytes(hogDirectionToString(cfgOf(loc[p]).Hogs[loc[p].o].Direction)),
                  SetupNext(loc[p]), SetupLoc(loc[p]), "write hog direction")

(***************************************************************************)
(* builder.live from the write of live to the return of the Sim.           *)
(***************************************************************************)
\* err = writeAttr(s.configfsPath, "live", "1")
LiveWriteLive(p) ==
    /\ pc[p] = "wlive"
    /\ Turn(p)
    /\ LET root == loc[p].s.configfsPath
       IN  \E f \in Outcomes :
              LET ok == f = "ok" /\ CanWrite(dirs, attrs, root, "live", Bytes("1"))
              IN  /\ Charge(f)
                  /\ Did(p, "write live=1", {}, f)
                  /\ IF ok
                     THEN /\ attrs' = Written(attrs, root, "live", Bytes("1"))
                          /\ Goto(p, "rdev")
                          /\ UNCHANGED loc
                     ELSE /\ Rollback(p, loc[p], "write live")
                          /\ UNCHANGED attrs
    /\ UNCHANGED <<dirs, sysattr, simCounter, hdl, ret, snap, issued, hist, mode, calls, contested>>

\* devName, err := readAttr(s.configfsPath, "dev_name")
LiveReadDevName(p) ==
    /\ pc[p] = "rdev"
    /\ Turn(p)
    /\ LET root == loc[p].s.configfsPath
       IN  \E f \in Outcomes :
              LET ok == f = "ok" /\ root \in dirs
              IN  /\ Charge(f)
                  /\ Did(p, "read dev_name", {}, f)
                  /\ IF ok
                     THEN /\ loc' = [loc EXCEPT
                                 ![p].devName = readAttr(ConfigfsShow(dirs, attrs, root, "dev_name")),
                                 ![p].i = 1]
                          /\ Goto(p, "rchip")
                     ELSE Rollback(p, loc[p], "read dev_name")
    /\ UNCHANGED <<fsvars, simCounter, hdl, ret, snap, issued, hist, mode, calls, contested>>

\* chipName, err := readAttr(bankPath, "chip_name")
LiveReadChipName(p) ==
    /\ pc[p] = "rchip"
    /\ Turn(p)
    /\ LET l == loc[p]
       IN  \E f \in Outcomes :
              LET ok == f = "ok" /\ bankPath(l) \in dirs
                  chipName == readAttr(ConfigfsShow(dirs, attrs, bankPath(l), "chip_name"))
              IN  /\ Charge(f)
                  /\ Did(p, "read chip_name", {}, f)
                  /\ IF ok
                     THEN /\ loc' = [loc EXCEPT ![p].s.Chips[l.i].devName = l.devName,
                                                ![p].s.Chips[l.i].chipName = chipName]
                          /\ Goto(p, "lstat")
                     ELSE Rollback(p, l, "read chip_name")
    /\ UNCHANGED <<fsvars, simCounter, hdl, ret, snap, issued, hist, mode, calls, contested>>

\* how os.Lstat(devPath) may end: "fail" is an error, "symlink" a symbolic link
LstatOutcomes == Outcomes \cup (IF faults < MaxFaults THEN {"symlink"} ELSE {})

\* the name the history gives os.Lstat(devPath) that ended f
LstatOp(f) == IF f = "symlink" THEN "lstat: symlink" ELSE "lstat"

\* AfterLstat that takes a symbolic link for the device file
AfterLstatFollows(f, exists) ==
    IF f = "fail" \/ (f = "ok" /\ ~exists) THEN "lstat" ELSE "next"

\* what live does after os.Lstat(devPath) ended f on a device file that
\* exists or not: "next" to go on, else the error it returns at once
AfterLstat(f, exists) ==
    IF f = "symlink" THEN "symlink masks device"
    ELSE IF f = "fail" \/ ~exists THEN "lstat"
    ELSE "next"

\* stat, err := os.Lstat(devPath) and the rest of the loop body; after the last
\* chip, return &s, nil
LiveLstat(p) ==
    /\ pc[p] = "lstat"
    /\ Turn(p)
    /\ LET l == loc[p]
           chipName == l.s.Chips[l.i].chipName
           devPath == Join(Dev, chipName)
           done == [l EXCEPT !.s.Chips[l.i].devPath = devPath,
                             !.s.Chips[l.i].sysfsPath =
                                 Join(Join(SysfsPlatform, l.devName), chipName)]
       IN  \E f \in LstatOutcomes :
              LET after == AfterLstat(f, DevFileExists(dirs, attrs, devPath))
              IN  /\ Charge(f)
                  /\ Did(p, LstatOp(f), {}, f)
                  /\ IF after # "next"
                     THEN /\ Return(p, "NewSim", FALSE, after)
                          /\ UNCHANGED hdl
                     ELSE IF l.i < Len(l.s.Chips)
                     THEN /\ loc' = [loc EXCEPT ![p] = [done EXCEPT !.i = @ + 1]]
                          /\ Goto(p, "rchip")
                          /\ UNCHANGED <<ret, hdl>>
                     ELSE /\ hdl' = [hdl EXCEPT ![p] = [held |-> TRUE, s |-> done.s, facade |-> FALSE]]
                          /\ Return(p, "NewSim", TRUE, Nil)
    /\ UNCHANGED <<fsvars, simCounter, snap, issued, hist, mode, calls, contested>>

(***************************************************************************)
(* Sim.Close and Sim.cleanupConfigfs, one system call a step.  The same    *)
(* steps run as the rollback of live (loc.from = "NewSim").                *)
(***************************************************************************)
\* Close on the Sim the caller holds
Close(p) ==
    /\ pc[p] = "idle"
    /\ Turn(p)
    /\ hdl[p].held
    /\ loc' = [loc EXCEPT ![p] = [LocInit EXCEPT !.s = hdl[p].s, !.from = "Close"]]
    /\ Goto(p, "c_live0")
    /\ Begin(p, IF hdl[p].s.Chips # <<>> THEN "Close" ELSE "Close again")
    /\ UNCHANGED <<fsvars, simCounter, faults, hdl, issued, hist, mode, calls, contested>>

\* CloseDone that returns the error of the teardown when its first write failed
CloseDoneLastError(p, l) ==
    IF l.from = "Close"
    THEN /\ hdl' = [hdl EXCEPT ![p].s.Chips = <<>>]
         /\ Return(p, "Close", FALSE, Nil)
    ELSE /\ Return(p, "NewSim", FALSE, IF pc[p] = "c_live0" THEN "write live" ELSE l.err)
         /\ UNCHANGED hdl

\* CloseDone that keeps the chips when cleanupConfigfs returned an error
CloseDoneKeepsChips(p, l) ==
    IF l.from = "Close"
    THEN /\ hdl' = [hdl EXCEPT ![p].s.Chips = IF pc[p] = "c_live0" THEN @ ELSE <<>>]
         /\ Return(p, "Close", FALSE, Nil)
    ELSE /\ Return(p, "NewSim", FALSE, l.err)
         /\ UNCHANGED hdl

\* CloseDone that keeps the chips for a retry when a step of the teardown failed
CloseDoneRetryable(p, l) ==
    IF l.from = "Close"
    THEN /\ hdl' = [hdl EXCEPT ![p].s.Chips =
                        IF \E op \in eff'[p].ops : op \in {"write live=0 failed", "remove failed"}
                        THEN @ ELSE <<>>]
         /\ Return(p, "Close", FALSE, Nil)
    ELSE /\ Return(p, "NewSim", FALSE, l.err)
         /\ UNCHANGED hdl

\* cleanupConfigfs has returned: s.Chips = nil, and the caller of Close goes on
CloseDone(p, l) ==
    IF l.from = "Close"
    THEN /\ hdl' = [hdl EXCEPT ![p].s.Chips = <<>>]
         /\ Return(p, "Close", FALSE, Nil)
    ELSE /\ Return(p, "NewSim", FALSE, l.err)
         /\ UNCHANGED hdl

\* what cleanupConfigfs does once writeAttr(live, "0") has ended: "abort" to
\* return the error, "go" to remove the tree
AfterLiveOff(ok) == IF ok THEN "go" ELSE "abort"

\* err := writeAttr(s.configfsPath, "live", "0")
CleanupLiveOff(p) ==
    /\ pc[p] = "c_live0"
    /\ Turn(p)
    /\ LET l == loc[p]
           root == l.s.configfsPath
       IN  \E f \in Outcomes :
              LET ok == f = "ok" /\ CanWrite(dirs, attrs, root, "live", Bytes("0"))
              IN  /\ Charge(f)
                  /\ DidOrFailed(p, "write live=0", ok, f)
                  /\ IF ok
                     THEN /\ attrs' = Written(attrs, root, "live", Bytes("0"))
                          /\ sysattr' = Prune(dirs, attrs', sysattr)
                          /\ hist' = Prune(dirs, attrs', hist)
                     ELSE UNCHANGED <<attrs, sysattr, hist>>
                  /\ IF AfterLiveOff(ok) = "abort"
                     THEN CloseDone(p, l)
                     ELSE /\ loc' = [loc EXCEPT ![p].i = 1]
                          /\ Goto(p, IF Len(l.s.Chips) = 0 THEN "c_rmroot" ELSE "c_stat")
                          /\ UNCHANGED <<hdl, ret>>
    /\ UNCHANGED <<dirs, simCounter, snap, issued, mode, calls, contested>>

\* CleanupNext with the loop over c.cfg.Names left out
CleanupNextHogsOnly(l) == IF l.hogs # {} THEN "c_rmhog" ELSE "c_rmbank"

\* CleanupNext with the loop over c.cfg.Names ahead of the loop over c.cfg.Hogs
CleanupNextNamesFirst(l) ==
    IF l.names # {} THEN "c_rmline"
    ELSE IF l.hogs # {} THEN "c_rmhog"
    ELSE "c_rmbank"

\* where cleanupConfigfs goes on within bank l.i
CleanupNext(l) ==
    IF l.hogs # {} THEN "c_rmhog"
    ELSE IF l.names # {} THEN "c_rmline"
    ELSE "c_rmbank"

\* where cleanupConfigfs goes on after bank l.i
CleanupAfterBank(l) == IF l.i < Len(l.s.Chips) THEN "c_stat" ELSE "c_rmroot"

\* AfterStat that leaves the loop at a bank that is missing
AfterStatBreaks(l, found) == IF found THEN CleanupNext(l) ELSE "c_rmroot"

\* where cleanupConfigfs goes on after os.Stat(bankPath): into the bank when it
\* was found, on to the next bank when it was not
AfterStat(l, found) == IF found THEN CleanupNext(l) ELSE CleanupAfterBank(l)

\* if _, err := os.Stat(bankPath); err != nil { continue }
CleanupStat(p) ==
    /\ pc[p] = "c_stat"
    /\ Turn(p)
    /\ LET l == loc[p]
           inBank == [l EXCEPT !.hogs = DOMAIN cfgOf(l).Hogs, !.names = DOMAIN cfgOf(l).Names]
       IN  IF Exists(dirs, bankPath(l))
           THEN /\ loc' = [loc EXCEPT ![p] = inBank]
                /\ Goto(p, AfterStat(inBank, TRUE))
           ELSE /\ loc' = [loc EXCEPT ![p].i = @ + 1]
                /\ Goto(p, AfterStat(l, FALSE))
    /\ UNCHANGED <<fsvars, simCounter, faults, hdl, ret, eff, snap, issued, hist, mode, calls, contested>>

\* os.Remove(path) ending f: the file system after it (errors are ignored)
Removed(p, path, f) ==
    LET ok == f = "ok" /\ CanRemove(dirs, path)
    IN  /\ Charge(f)
        /\ DidOrFailed(p, "remove", ok, f)
        /\ IF ok
           THEN /\ dirs' = dirs \ {path}
                /\ attrs' = DropAttrs(attrs, path)
                /\ sysattr' = Prune(dirs', attrs', sysattr)
                /\ hist' = Prune(dirs', attrs', hist)
           ELSE UNCHANGED <<dirs, attrs, sysattr, hist>>

\* os.Remove(path.Join(linePath, "hog")) for one of the hogged lines still to do
CleanupRmHog(p) ==
    /\ pc[p] = "c_rmhog"
    /\ Turn(p)
    /\ \E o \in loc[p].hogs : \E f \in Outcomes :
          LET l == [loc[p] EXCEPT !.o = o, !.hogs = @ \ {o}]
          IN  /\ Removed(p, hogPath(l), f)
              /\ loc' = [loc EXCEPT ![p] = l]
              /\ Goto(p, "c_rmhogline")
    /\ UNCHANGED <<simCounter, hdl, ret, snap, issued, mode, calls, contested>>

\* os.Remove(linePath) of the hogged line
CleanupRmHogLine(p) ==
    /\ pc[p] = "c_rmhogline"
    /\ Turn(p)
    /\ \E f \in Outcomes :
          /\ Removed(p, linePath(loc[p]), f)
          /\ Goto(p, CleanupNext(loc[p]))
    /\ UNCHANGED <<simCounter, loc, hdl, ret, snap, issued, mode, calls, contested>>

\* os.Remove(linePath) for one of the named lines still to do
CleanupRmLine(p) ==
    /\ pc[p] = "c_rmline"
    /\ Turn(p)
    /\ \E o \in loc[p].names : \E f \in Outcomes :
          LET l == [loc[p] EXCEPT !.o = o, !.names = @ \ {o}]
          IN  /\ Removed(p, linePath(l), f)
              /\ loc' = [loc EXCEPT ![p] = l]
              /\ Goto(p, CleanupNext(l))
    /\ UNCHANGED <<simCounter, hdl, ret, snap, issued, mode, calls, contested>>

\* os.Remove(bankPath)
CleanupRmBank(p) ==
    /\ pc[p] = "c_rmbank"
    /\ Turn(p)
    /\ \E f \in Outcomes :
          /\ Removed(p, bankPath(loc[p]), f)
          /\ loc' = [loc EXCEPT ![p].i = @ + 1]
          /\ Goto(p, CleanupAfterBank(loc[p]))
    /\ UNCHANGED <<simCounter, hdl, ret, snap, issued, mode, calls, contested>>

\* os.Remove(s.configfsPath); cleanupConfigfs returns nil
CleanupRmRoot(p) ==
    /\ pc[p] = "c_rmroot"
    /\ Turn(p)
    /\ \E f \in Outcomes :
          /\ Removed(p, loc[p].s.configfsPath, f)
          /\ CloseDone(p, loc[p])
    /\ UNCHANGED <<simCounter, snap, issued, mode, calls, contested>>

(***************************************************************************)
(* The lines of a chip: Chip.Level, Pull, Pulldown, Pullup, SetPull and    *)
(* Toggle, one system call a step.                                         *)
(***************************************************************************)
\* the offsets the callers pass: a line of the chip and the one past its last
LineOffsets == {3, 8}

\* the levels the callers pass to SetPull
LevelInputs == {LevelInactive, LevelActive, 2}

LineOps == {"Level", "Pull", "Pulldown", "Pullup", "SetPull", "Toggle"}

\* path.Join(c.sysfsPath, fmt.Sprintf("sim_gpio%d", offset))
LinePathOf(chip, offset) == Join(chip.sysfsPath, SimGpioDir(offset))

\* lineOf that takes every call to be about the first chip
lineOfFirstChip(l) == LinePathOf(l.s.Chips[1], l.o)

\* the line the call of process p is about
lineOf(l) == LinePathOf(l.s.Chips[l.i], l.o)

\* PullName with the two pulls taken for each other
PullNameSwapped(level) == IF level = LevelActive THEN "pull-down" ELSE "pull-up"

\* SetPull: l := "pull-down"; if level == LevelActive { l = "pull-up" }
PullName(level) == IF level = LevelActive THEN "pull-up" ELSE "pull-down"

\* PullOf that takes any text for one of the two pulls
PullOfLenient(v) ==
    IF v = "pull-up" THEN <<LevelActive, Nil>> ELSE <<LevelInactive, Nil>>

\* LevelOf that returns the level of a text it does not take
LevelOfLoose(v) ==
    IF v = "0" THEN <<LevelInactive, Nil>>
    ELSE IF v = "1" THEN <<LevelActive, Nil>>
    ELSE <<LevelActive, "unexpected level value: " \o v>>

\* Pull: the level and the error for the text of the attribute
PullOf(v) ==
    IF v = "pull-down" THEN <<LevelInactive, Nil>>
    ELSE IF v = "pull-up" THEN <<LevelActive, Nil>>
    ELSE <<LevelInactive, "unexpected pull value: " \o v>>

\* Level: the level and the error for the text of the attribute
LevelOf(v) ==
    IF v = "0" THEN <<LevelInactive, Nil>>
    ELSE IF v = "1" THEN <<LevelActive, Nil>>
    ELSE <<LevelInactive, "unexpected level value: " \o v>>

\* Inverse that leaves the pull as it is
InverseNot(p) == p

\* Toggle: if p == 0 { p = 1 } else { p = 0 }
Inverse(p) == IF p = 0 THEN 1 ELSE 0

\* a caller calls a method of a chip of a Sim that some caller holds
LineCall(p) ==
    /\ pc[p] = "idle"
    /\ Turn(p)
    /\ \E h \in Procs :
          /\ hdl[h].held
          /\ \E c \in 1..Len(hdl[h].s.Chips) : \E o \in LineOffsets : \E op \in LineOps :
                \E level \in (IF op = "SetPull" THEN LevelInputs ELSE {0}) :
                   /\ loc' = [loc EXCEPT ![p] = [LocInit EXCEPT !.s = hdl[h].s, !.i = c, !.o = o,
                                                               !.level = level, !.from = op]]
                   /\ Goto(p, op)
                   /\ Begin(p, op)
    /\ UNCHANGED <<fsvars, simCounter, faults, hdl, issued, hist, mode, calls, contested>>

\* a method of a chip returns to process p
LineReturn(p, val, err) ==
    /\ pc' = [pc EXCEPT ![p] = "idle"]
    /\ ret' = [ret EXCEPT ![p] = [RetInit EXCEPT !.op = loc[p].from, !.val = val, !.err = err,
                                                 !.line = lineOf(loc[p])]]
    /\ loc' = [loc EXCEPT ![p] = LocInit]

\* a method of a chip returns to process p what it made of the data it read
\* (history: the data, and whether the read failed)
LineRead(p, data, rerr, val, err) ==
    /\ pc' = [pc EXCEPT ![p] = "idle"]
    /\ ret' = [ret EXCEPT ![p] = [RetInit EXCEPT !.op = loc[p].from, !.val = val, !.err = err,
                                                 !.line = lineOf(loc[p]), !.data = data,
                                                 !.rerr = rerr]]
    /\ loc' = [loc EXCEPT ![p] = LocInit]

\* contents of an attribute file other than those the gpio-sim module shows for
\* it: the methods take whatever os.ReadFile yields
ForeignTexts == {<<>>, <<"as-is", "\n">>, <<" ", "pull-up", "\n", "\n">>, <<"1">>, <<"\t", "0", " ">>}

\* how a read of an attribute file may end: as the gpio-sim module has it
\* ("ok"), with an error ("fail"), or with other contents ("foreign", drawn
\* where one goroutine works the lines, SpecChips)
ReadOutcomes ==
    Outcomes \cup (IF faults < MaxFaults /\ mode = "chips" THEN {"foreign"} ELSE {})

\* the contents a read that ended f may have yielded
TextsOf(f) == IF f = "foreign" THEN ForeignTexts ELSE {<<>>}

\* os.ReadFile(p): the data of a read of attribute `name` that ended f, t
FileData(l, name, f, t) ==
    IF f = "foreign" THEN t ELSE SysfsShow(sysattr, lineOf(l), name)

\* os.ReadFile(p) fails
ReadFails(l, f) == f = "fail" \/ ~SysLineExists(dirs, attrs, lineOf(l))

\* c.attr(offset, name): <<text, err>> of a read that ended f, t
attr(l, name, f, t) ==
    IF ReadFails(l, f)
    THEN <<"", "read " \o name>>
    ELSE <<readAttr(FileData(l, name, f, t)), Nil>>

\* the data of that read as the history keeps it
DataRead(l, name, f, t) == IF ReadFails(l, f) THEN <<>> ELSE FileData(l, name, f, t)

\* c.setAttr(offset, "pull", value) by process p, ending f: the write takes
\* effect, and the line's history names this call as its last writer (the
\* history is kept where the goroutines work the lines, SpecLines)
setAttrPull(p, l, value, f) ==
    LET path == lineOf(l)
        ok == f = "ok" /\ SysLineExists(dirs, attrs, path) /\ KPullAccepts(Bytes(value))
        again == <<path, "by">> \in DOMAIN hist /\ hist[<<path, "by">>].op = "Toggle"
        stale == l.from = "Toggle" /\ l.was # KPull(sysattr, path)
    IN  /\ Charge(f)
        /\ Did(p, "write pull", {}, f)
        /\ IF ok
           THEN /\ sysattr' = (<<path, "pull">> :> KStore(Bytes(value))) @@ sysattr
                /\ hist' = IF mode = "lines"
                           THEN (<<path, "by">> :> [op |-> l.from, level |-> l.level,
                                                    was |-> l.was, again |-> again,
                                                    stale |-> stale]) @@ hist
                           ELSE hist
                /\ LineReturn(p, 0, Nil)
           ELSE /\ UNCHANGED <<sysattr, hist>>
                /\ LineReturn(p, 0, "write pull")

\* func (c *Chip) Level(offset int) (int, error)
Level(p) ==
    /\ pc[p] = "Level"
    /\ Turn(p)
    /\ \E f \in ReadOutcomes : \E t \in TextsOf(f) :
          LET v == attr(loc[p], "value", f, t)
              r == IF v[2] = Nil THEN LevelOf(v[1]) ELSE <<LevelInactive, v[2]>>
          IN  /\ Charge(f)
              /\ Did(p, "read value", {}, f)
              /\ LineRead(p, DataRead(loc[p], "value", f, t), ReadFails(loc[p], f), r[1], r[2])
    /\ UNCHANGED <<fsvars, simCounter, hdl, snap, issued, hist, mode, calls, contested>>

\* func (c *Chip) Pull(offset int) (int, error)
Pull(p) ==
    /\ pc[p] = "Pull"
    /\ Turn(p)
    /\ \E f \in ReadOutcomes : \E t \in TextsOf(f) :
          LET v == attr(loc[p], "pull", f, t)
              r == IF v[2] = Nil THEN PullOf(v[1]) ELSE <<LevelInactive, v[2]>>
          IN  /\ Charge(f)
              /\ Did(p, "read pull", {}, f)
              /\ LineRead(p, DataRead(loc[p], "pull", f, t), ReadFails(loc[p], f), r[1], r[2])
    /\ UNCHANGED <<fsvars, simCounter, hdl, snap, issued, hist, mode, calls, contested>>

\* func (c *Chip) SetPull(offset int, level int) error
SetPull(p) ==
    /\ pc[p] = "SetPull"
    /\ Turn(p)
    /\ \E f \in Outcomes : setAttrPull(p, loc[p], PullName(loc[p].level), f)
    /\ UNCHANGED <<dirs, attrs, simCounter, hdl, snap, issued, mode, calls, contested>>

\* func (c *Chip) Pulldown(offset int) error: c.SetPull(offset, LevelInactive)
Pulldown(p) ==
    /\ pc[p] = "Pulldown"
    /\ Turn(p)
    /\ \E f \in Outcomes :
          setAttrPull(p, [loc[p] EXCEPT !.level = LevelInactive], PullName(LevelInactive), f)
    /\ UNCHANGED <<dirs, attrs, simCounter, hdl, snap, issued, mode, calls, contested>>

\* func (c *Chip) Pullup(offset int) error: c.SetPull(offset, LevelActive)
Pullup(p) ==
    /\ pc[p] = "Pullup"
    /\ Turn(p)
    /\ \E f \in Outcomes :
          setAttrPull(p, [loc[p] EXCEPT !.level = LevelActive], PullName(LevelActive), f)
    /\ UNCHANGED <<dirs, attrs, simCounter, hdl, snap, issued, mode, calls, contested>>

\* Toggle that drops the error of Pull and inverts the level it came with
ToggleIgnoresError(p) ==
    /\ pc[p] = "Toggle"
    /\ Turn(p)
    /\ \E f \in ReadOutcomes : \E t \in TextsOf(f) :
          LET v == attr(loc[p], "pull", f, t)
              r == IF v[2] = Nil THEN PullOf(v[1]) ELSE <<LevelInactive, v[2]>>
          IN  /\ Charge(f)
              /\ Did(p, "read pull", {}, f)
              /\ loc' = [loc EXCEPT ![p].level = Inverse(r[1]),
                                    ![p].was = KPull(sysattr, lineOf(loc[p])),
                                    ![p].read = DataRead(loc[p], "pull", f, t)]
              /\ Goto(p, "ToggleSet")
              /\ UNCHANGED ret
    /\ UNCHANGED <<fsvars, simCounter, hdl, snap, issued, hist, mode, calls, contested>>

\* Toggle: p, err := c.Pull(offset); the pull the kernel holds at the read is
\* kept as loc.was, and the data read as loc.read (history)
Toggle(p) ==
    /\ pc[p] = "Toggle"
    /\ Turn(p)
    /\ \E f \in ReadOutcomes : \E t \in TextsOf(f) :
          LET v == attr(loc[p], "pull", f, t)
              r == IF v[2] = Nil THEN PullOf(v[1]) ELSE <<LevelInactive, v[2]>>
          IN  /\ Charge(f)
              /\ Did(p, "read pull", {}, f)
              /\ IF r[2] # Nil
                 THEN LineRead(p, DataRead(loc[p], "pull", f, t), ReadFails(loc[p], f), 0, r[2])
                 ELSE /\ loc' = [loc EXCEPT ![p].level = Inverse(r[1]),
                                            ![p].was = KPull(sysattr, lineOf(loc[p])),
                                            ![p].read = DataRead(loc[p], "pull", f, t)]
                      /\ Goto(p, "ToggleSet")
                      /\ UNCHANGED ret
    /\ UNCHANGED <<fsvars, simCounter, hdl, snap, issued, hist, mode, calls, contested>>

\* ToggleSet that inverts the pull the line has when it writes
ToggleSetFresh(p) ==
    /\ pc[p] = "ToggleSet"
    /\ Turn(p)
    /\ \E f \in Outcomes :
          setAttrPull(p, loc[p],
                      PullName(Inverse(PullOf(Str(KPull(sysattr, lineOf(loc[p]))))[1])), f)
    /\ UNCHANGED <<dirs, attrs, simCounter, hdl, snap, issued, mode, calls, contested>>

\* Toggle: return c.SetPull(offset, p)
ToggleSet(p) ==
    /\ pc[p] = "ToggleSet"
    /\ Turn(p)
    /\ \E f \in Outcomes : setAttrPull(p, loc[p], PullName(loc[p].level), f)
    /\ UNCHANGED <<dirs, attrs, simCounter, hdl, snap, issued, mode, calls, contested>>

\* a step of a call of a method of a chip
LineStep(p) ==
    \/ LineCall(p)
    \/ Level(p)
    \/ Pull(p)
    \/ SetPull(p)
    \/ Pulldown(p)
    \/ Pullup(p)
    \/ Toggle(p)
    \/ ToggleSet(p)

(***************************************************************************)
(* The identifiers of a chip, and Simpleton: a Sim of one chip whose        *)
(* methods call those of s.Chips[0].                                       *)
(***************************************************************************)
\* the line counts NewSimpleton is called with
SimpletonLines == {4}

\* SimpletonDescription with a line named
SimpletonDescriptionNamed(numLines) ==
    <<WithBank(NewBank("simpleton", numLines, <<WithNamedLine(0, "simpleton")>>))>>

\* NewSimpleton: the options of NewSim(WithBank(NewBank("simpleton", numLines)))
SimpletonDescription(numLines) == <<WithBank(NewBank("simpleton", numLines, <<>>))>>

\* s.Chips[0]
SimpletonChip == 1

\* func NewSimpleton(numLines int) (*Simpleton, error): the call of NewSim
NewSimpleton(p) ==
    /\ pc[p] = "idle"
    /\ Turn(p)
    /\ ~hdl[p].held \/ hdl[p].s.Chips = <<>>
    /\ \E numLines \in SimpletonLines :
          LET options == SimpletonDescription(numLines)
          IN  loc' = [loc EXCEPT ![p] = [LocInit EXCEPT !.options = options,
                                                        !.b = ApplySimOptions(options, EmptyBuilder),
                                                        !.from = "NewSim",
                                                        !.via = "NewSimpleton"]]
    /\ Goto(p, "live")
    /\ hdl' = [hdl EXCEPT ![p] = NoHandle]
    /\ Begin(p, "NewSimpleton")
    /\ calls < MaxCalls
    /\ calls' = calls + 1
    /\ UNCHANGED <<fsvars, simCounter, faults, issued, hist, mode, contested>>

\* NewSimpletonReturn that wraps whatever NewSim returned
NewSimpletonReturnAlways(p) ==
    /\ pc[p] = "simpleton"
    /\ Turn(p)
    /\ hdl' = [hdl EXCEPT ![p].held = TRUE, ![p].facade = TRUE]
    /\ ret' = [ret EXCEPT ![p].op = "NewSimpleton", ![p].sim = TRUE]
    /\ pc' = [pc EXCEPT ![p] = "idle"]
    /\ loc' = [loc EXCEPT ![p] = LocInit]
    /\ UNCHANGED <<fsvars, simCounter, faults, eff, snap, issued, hist, mode, calls, contested>>

\* NewSimpleton: if s == nil { return nil, err }; return &Simpleton{*s}, err
NewSimpletonReturn(p) ==
    /\ pc[p] = "simpleton"
    /\ Turn(p)
    /\ IF ~ret[p].sim
       THEN /\ UNCHANGED hdl
            /\ ret' = [ret EXCEPT ![p].op = "NewSimpleton"]
       ELSE /\ hdl' = [hdl EXCEPT ![p].facade = TRUE]
            /\ ret' = [ret EXCEPT ![p].op = "NewSimpleton"]
    /\ pc' = [pc EXCEPT ![p] = "idle"]
    /\ loc' = [loc EXCEPT ![p] = LocInit]
    /\ UNCHANGED <<fsvars, simCounter, faults, eff, snap, issued, hist, mode, calls, contested>>

\* the methods of a chip that return what live has stored in it
GetOps == {"ChipName", "Config", "DevPath"}

\* a caller calls ChipName, Config or DevPath of a chip of a Sim that is held
GetCall(p) ==
    /\ pc[p] = "idle"
    /\ Turn(p)
    /\ \E h \in Procs :
          /\ hdl[h].held
          /\ \E c \in 1..Len(hdl[h].s.Chips) : \E op \in GetOps :
                /\ loc' = [loc EXCEPT ![p] = [LocInit EXCEPT !.s = hdl[h].s, !.i = c, !.from = op]]
                /\ Goto(p, op)
                /\ Begin(p, op)
    /\ UNCHANGED <<fsvars, simCounter, faults, hdl, issued, hist, mode, calls, contested>>

\* a caller calls a method of a Simpleton that is held: the method calls the
\* method of that name of s.Chips[0].  On a Simpleton that Close has left with
\* s.Chips = nil the index expression panics (index out of range [0] with
\* length 0) before any method of a chip is called; the goroutine that panics
\* makes no further call.
SimpletonCall(p) ==
    /\ pc[p] = "idle"
    /\ Turn(p)
    /\ \E h \in Procs :
          /\ hdl[h].held /\ hdl[h].facade
          /\ \E o \in LineOffsets : \E op \in LineOps \cup GetOps :
                \E level \in (IF op = "SetPull" THEN LevelInputs ELSE {0}) :
                   IF hdl[h].s.Chips = <<>>
                   THEN /\ loc' = [loc EXCEPT ![p] = [LocInit EXCEPT !.s = hdl[h].s, !.i = SimpletonChip,
                                                                    !.from = op, !.via = "Simpleton"]]
                        /\ Goto(p, "panic")
                        /\ Begin(p, "Simpleton." \o op)
                   ELSE /\ loc' = [loc EXCEPT ![p] = [LocInit EXCEPT !.s = hdl[h].s, !.i = SimpletonChip,
                                                                    !.o = IF op \in GetOps THEN 0 ELSE o,
                                                                    !.level = level, !.from = op,
                                                                    !.via = "Simpleton"]]
                        /\ Goto(p, op)
                        /\ Begin(p, "Simpleton." \o op)
    /\ UNCHANGED <<fsvars, simCounter, faults, hdl, issued, hist, mode, calls, contested>>

\* func (c *Chip) ChipName() string, Config() Bank, DevPath() string
Get(p) ==
    /\ pc[p] \in GetOps
    /\ Turn(p)
    /\ LET c == loc[p].s.Chips[loc[p].i]
       IN  ret' = [ret EXCEPT ![p] =
                      [RetInit EXCEPT !.op = pc[p],
                                      !.str = IF pc[p] = "ChipName" THEN c.chipName ELSE "",
                                      !.cfg = IF pc[p] = "Config" THEN c.cfg ELSE RetInit.cfg,
                                      !.path = IF pc[p] = "DevPath" THEN c.devPath ELSE <<>>]]
    /\ pc' = [pc EXCEPT ![p] = "idle"]
    /\ loc' = [loc EXCEPT ![p] = LocInit]
    /\ UNCHANGED <<fsvars, simCounter, faults, hdl, eff, snap, issued, hist, mode, calls, contested>>

\* a step of NewSimpleton, of a method of a Simpleton or of ChipName, Config or
\* DevPath
FacadeStep(p) ==
    \/ NewSimpleton(p)
    \/ NewSimpletonReturn(p)
    \/ SimpletonCall(p)
    \/ GetCall(p)
    \/ Get(p)

(***************************************************************************)
(* The user of the lines: the program under test requests a line of a chip *)
(* through its device file and drives it, as TestChipLevel does.           *)
(***************************************************************************)
\* the offset the user requests
DrivenOffsets == {3}

\* the value attribute of a line that is driven at v
DrivenText(v) == IF v = LevelActive THEN "1" ELSE "0"

\* the lines of the chips of the Sims that are held
HeldLines(offsets) ==
    UNION {{LinePathOf(hdl[h].s.Chips[c], o) : c \in 1..Len(hdl[h].s.Chips), o \in offsets} :
              h \in {q \in Procs : hdl[q].held}}

\* the lines the user requests: those at DrivenOffsets of the first chip, as
\* TestChipLevel does (c := &s.Chips[0])
DrivenLines ==
    UNION {{LinePathOf(hdl[h].s.Chips[1], o) : o \in DrivenOffsets} :
              h \in {q \in Procs : hdl[q].held /\ hdl[q].s.Chips # <<>>}}

\* gpiod.RequestLine(c.DevPath(), offset, gpiod.AsOutput(v)) and l.SetValue(v):
\* the line is an output at v, whatever its pull
Drive(p) ==
    /\ pc[p] = "idle"
    /\ Turn(p)
    /\ \E path \in DrivenLines : \E v \in {LevelInactive, LevelActive} :
          /\ SysLineExists(dirs, attrs, path)
          /\ sysattr' = (<<path, "value">> :> KStore(Bytes(DrivenText(v)))) @@ sysattr
    /\ UNCHANGED <<dirs, attrs, simCounter, faults, pc, loc, hdl, ret, eff, snap, issued, hist,
                   mode, calls, contested>>

\* l.Close(): the line is no longer requested, and shows the level of its pull
Release(p) ==
    /\ pc[p] = "idle"
    /\ Turn(p)
    /\ \E path \in DrivenLines :
          /\ <<path, "value">> \in DOMAIN sysattr
          /\ sysattr' = [k \in DOMAIN sysattr \ {<<path, "value">>} |-> sysattr[k]]
    /\ UNCHANGED <<dirs, attrs, simCounter, faults, pc, loc, hdl, ret, eff, snap, issued, hist,
                   mode, calls, contested>>

\* a step of the user of the lines
UserStep(p) ==
    \/ Drive(p)
    \/ Release(p)

(***************************************************************************)
(* The specifications.                                                     *)
(***************************************************************************)
\* a step of a call of process p
Step(p) ==
    \/ NewSim(p)
    \/ LiveNoBanks(p)
    \/ LiveName(p)
    \/ LiveFind(p)
    \/ FindModprobe(p)
    \/ FindLoaded(p)
    \/ MountPointScan(p)
    \/ MountPointMount(p)
    \/ FindMounted(p)
    \/ LiveStat(p)
    \/ SetupMkBank(p)
    \/ SetupLabel(p)
    \/ SetupNumLines(p)
    \/ SetupMkLine(p)
    \/ SetupLineName(p)
    \/ SetupMkHog(p)
    \/ SetupHogName(p)
    \/ SetupHogDirection(p)
    \/ LiveWriteLive(p)
    \/ LiveReadDevName(p)
    \/ LiveReadChipName(p)
    \/ LiveLstat(p)
    \/ Close(p)
    \/ CleanupLiveOff(p)
    \/ CleanupStat(p)
    \/ CleanupRmHog(p)
    \/ CleanupRmHogLine(p)
    \/ CleanupRmLine(p)
    \/ CleanupRmBank(p)
    \/ CleanupRmRoot(p)

\* some caller takes a step of its call
Next == \E p \in Procs : Step(p)

\* the callers are one goroutine: calls run one after the other (Turn)
Spec == Init /\ [][Next]_vars

\* the callers are goroutines: their steps interleave
SpecRace == InitRace /\ [][Next]_vars

\* the goroutines make a Sim and work the lines of its chips
InitLines == Start("lines")

NextLines == \E p \in Procs : Step(p) \/ LineStep(p)

SpecLines == InitLines /\ [][NextLines]_vars

\* one goroutine makes a Sim of two chips or a Simpleton and works the lines,
\* while the program under test drives a line
InitChips == Start("chips")

NextChips == \E p \in Procs : Step(p) \/ LineStep(p) \/ FacadeStep(p) \/ UserStep(p)

SpecChips == InitChips /\ [][NextChips]_vars

\* a directory under the root of the Sim that p holds is removed by somebody
\* else: a line or hog directory, or a bank left empty
Vanish(p) ==
    /\ pc[p] = "idle"
    /\ Turn(p)
    /\ hdl[p].held
    /\ hdl[p].s.Chips # <<>>
    /\ \E d \in {x \in dirs : IsPrefix(hdl[p].s.configfsPath, x)} \ {hdl[p].s.configfsPath} :
          /\ CanRemove(dirs, d)
          /\ dirs' = dirs \ {d}
          /\ attrs' = DropAttrs(attrs, d)
          /\ sysattr' = Prune(dirs', attrs', sysattr)
          /\ hist' = Prune(dirs', attrs', hist)
    /\ UNCHANGED <<simCounter, faults, pc, loc, hdl, ret, eff, snap, issued, mode, calls, contested>>

\* one goroutine makes and closes a Sim of two chips whose directories may be
\* gone by the time it is closed
InitSolo == Start("solo")

NextSolo == \E p \in Procs : Step(p) \/ Vanish(p)

SpecSolo == InitSolo /\ [][NextSolo]_vars

(***************************************************************************)
(* What the claims are stated in.                                          *)
(***************************************************************************)
\* the directories at or under a path
Under(path) == {d \in dirs : IsPrefix(path, d)}

\* the file system and the counter, as a call's snapshot records them
Now == <<dirs, attrs, simCounter>>

\* the last call of process p has returned, and it was op
Returned(p, op) == pc[p] = "idle" /\ ret[p].op = op

\* the system calls of a call that change the file system
Mutating == {"mkdir", "write", "write live=1", "write live=0", "remove"}

\* process p holds a Sim with its chips
HoldsLive(p) == hdl[p].held /\ hdl[p].s.Chips # <<>>

\* the device file of bank i of the Sim rooted at root
DevPathOf(root, i) == Join(Dev, ChipNameOf(Join(root, BankDir(i))))

(***************************************************************************)
(* C1: whenever NewSim returns an error, no directory the call created     *)
(* still exists.  The code returns without s.Close() when os.Lstat fails   *)
(* or finds a symbolic link, and the tree stays, live; and where it does   *)
(* call s.Close() before the device is live, the teardown stops at its     *)
(* write of live=0 (C19).                                                  *)
(***************************************************************************)
C1_FailedActivationLeavesNothing ==
    \A p \in Procs :
        Returned(p, "NewSim") /\ ret[p].err # Nil => eff[p].created \cap dirs = {}

C3_SecondCloseIsNoOp ==
    \A p \in Procs :
        /\ Returned(p, "Close") /\ "Close again" \in eff[p].ops
        /\ hdl[p].s.configfsPath \notin snap[p][1]
        => Now = snap[p] /\ ret[p].err = Nil /\ eff[p].created = {}

\* a second Close has returned on a Sim that was torn down
C3_Witness ==
    \E p \in Procs :
        /\ Returned(p, "Close") /\ "Close again" \in eff[p].ops
        /\ hdl[p].s.configfsPath \notin snap[p][1]
        /\ "write live=0" \in eff[p].ops

(***************************************************************************)
(* C4: NewSim with a name whose path exists fails with the name conflict,  *)
(* returns no Sim and leaves the file system as it was: no call gets past  *)
(* the check to build on a path that exists, and the failing call makes    *)
(* no system call that changes anything.                                   *)
(***************************************************************************)
C4_NameConflictTouchesNothing ==
    \A p \in Procs :
        /\ Returned(p, "NewSim") /\ ret[p].err = "sim already exists"
           => /\ Now = snap[p]
              /\ ~ret[p].sim /\ ~hdl[p].held
              /\ eff[p].ops \cap Mutating = {}
        /\ pc[p] = "mkbank" /\ loc[p].i = 1 /\ eff[p].created = {}
           => loc[p].s.configfsPath \notin dirs

\* a NewSim has failed on the name of a Sim that another caller holds, live
C4_Witness ==
    \E p \in Procs : \E q \in Procs \ {p} :
        /\ Returned(p, "NewSim") /\ ret[p].err = "sim already exists"
        /\ HoldsLive(q) /\ IsLive(attrs, hdl[q].s.configfsPath)

(***************************************************************************)
(* C5: NewSim without a bank fails before anything else happens: nothing   *)
(* is created or written, the environment is not looked up and the naming  *)
(* counter stays.                                                          *)
(***************************************************************************)
C5_NoBanksNoEffect ==
    \A p \in Procs :
        Returned(p, "NewSim") /\ ret[p].err = "no banks defined"
        => Now = snap[p] /\ eff[p].ops = {"NewSim"} /\ ~ret[p].sim /\ ~hdl[p].held

\* a NewSim without a bank has failed while another Sim exists
C5_Witness ==
    \E p \in Procs :
        /\ Returned(p, "NewSim") /\ ret[p].err = "no banks defined"
        /\ dirs # {}

(***************************************************************************)
(* C6: when NewSim returns a Sim, it has one chip per bank given, in the   *)
(* order given, each chip's configuration is the bank given, and the       *)
(* kernel holds that bank's label and number of lines under bank<i>.       *)
(***************************************************************************)
ChipsMatch(chips, banks, root, a) ==
    /\ Len(chips) = Len(banks)
    /\ \A i \in 1..Len(banks) :
          /\ chips[i].cfg = banks[i]
          /\ HasAttr(a, Join(root, BankDir(i - 1)), "label")
          /\ a[<<Join(root, BankDir(i - 1)), "label">>] = Bytes(banks[i].Label)
          /\ KNumLines(a, Join(root, BankDir(i - 1))) = banks[i].NumLines

C6_ChipsAreTheBanks ==
    [][\A p \in Procs :
          pc[p] = "lstat" /\ pc'[p] = "idle" /\ ret'[p].sim
          => /\ hdl'[p].held
             /\ ChipsMatch(hdl'[p].s.Chips, BanksIn(loc[p].options),
                           hdl'[p].s.configfsPath, attrs')]_vars

\* a Sim of two chips with different configurations has been returned
C6_Witness ==
    \E p \in Procs :
        /\ Returned(p, "NewSim") /\ ret[p].sim /\ HoldsLive(p)
        /\ Len(hdl[p].s.Chips) = 2
        /\ hdl[p].s.Chips[1].cfg.NumLines # hdl[p].s.Chips[2].cfg.NumLines
        /\ hdl[p].s.Chips[2].cfg.Names # EmptyMap

(***************************************************************************)
(* C7 as stated: of two calls of NewSim with one name at most one returns  *)
(* a Sim, however their steps interleave, and the roll-back of the one     *)
(* that fails leaves the tree of the Sim the other returned as it is.      *)
(***************************************************************************)
\* the directories and attributes at or under root
TreeOf(root, d, a) ==
    <<{x \in d : IsPrefix(root, x)},
      [k \in {x \in DOMAIN a : IsPrefix(root, x[1])} |-> a[k]]>>

\* process q is within a call of NewSim
InActivation(q) == pc[q] # "idle" /\ loc[q].from = "NewSim"

\* processes p and q both hold a Sim with its chips, of one root
ShareRoot(p, q) ==
    /\ pc[p] = "idle" /\ pc[q] = "idle"
    /\ HoldsLive(p) /\ HoldsLive(q)
    /\ hdl[p].s.configfsPath = hdl[q].s.configfsPath

\* a step of process q within NewSim changes the tree of the Sim p holds
Harms(q, p) ==
    /\ pc[p] = "idle" /\ HoldsLive(p)
    /\ InActivation(q) /\ pc'[q] # pc[q]
    /\ TreeOf(hdl[p].s.configfsPath, dirs', attrs') # TreeOf(hdl[p].s.configfsPath, dirs, attrs)

C8_UniqueNamesDistinct ==
    \A i \in 1..Len(issued) : \A j \in 1..Len(issued) :
        i # j => issued[i] # issued[j] /\ uniqueName(issued[i]) # uniqueName(issued[j])

\* two callers have each just been given a name, at the same time
C8_Witness ==
    /\ mode = "race"
    /\ Len(issued) = 2
    /\ \A p \in Procs : pc[p] = "find" /\ "uniqueName" \in eff[p].ops

(***************************************************************************)
(* C9: a Pull of a line returns, without error, the level its last writer  *)
(* set: the level given to SetPull, LevelActive after Pullup and           *)
(* LevelInactive after Pulldown; and these writers return no error on a    *)
(* line that exists.  System calls that fail for an outside reason aside.  *)
(***************************************************************************)
\* the key of a line's history
By(path) == <<path, "by">>

\* process p returns from the call it is in at label
Returns(p, label) == pc[p] = label /\ pc'[p] = "idle"

C9_PullReturnsWhatWasSet ==
    [][\A p \in Procs :
          /\ Returns(p, "Pull") /\ By(lineOf(loc[p])) \in DOMAIN hist /\ eff'[p].faultAt = {}
             => LET w == hist[By(lineOf(loc[p]))]
                IN  /\ ret'[p].err = Nil
                    /\ w.op = "SetPull" /\ w.level \in {LevelInactive, LevelActive}
                       => ret'[p].val = w.level
                    /\ w.op = "Pullup" => ret'[p].val = LevelActive
                    /\ w.op = "Pulldown" => ret'[p].val = LevelInactive
          /\ /\ Returns(p, "SetPull") \/ Returns(p, "Pullup") \/ Returns(p, "Pulldown")
             /\ SysLineExists(dirs, attrs, lineOf(loc[p]))
             /\ eff'[p].faultAt = {}
             => /\ ret'[p].err = Nil
                /\ By(lineOf(loc[p])) \in DOMAIN hist'
                /\ hist'[By(lineOf(loc[p]))].op = loc[p].from]_vars

\* a Pull has returned LevelActive for a line last written by SetPull(o, LevelActive)
C9_Witness ==
    \E p \in Procs :
        /\ Returned(p, "Pull") /\ ret[p].err = Nil /\ ret[p].val = LevelActive
        /\ By(ret[p].line) \in DOMAIN hist
        /\ hist[By(ret[p].line)].op = "SetPull"
        /\ hist[By(ret[p].line)].level = LevelActive

(***************************************************************************)
(* C10: when the pull of the line is still what Toggle read, the write of  *)
(* a Toggle that returns no error leaves the other pull; and when the last *)
(* writer of the line was a Toggle too, it leaves the pull that one read.  *)
(***************************************************************************)
Opposite(pull) == IF pull = <<"pull-up">> THEN <<"pull-down">> ELSE <<"pull-up">>

C10_ToggleInverts ==
    [][\A p \in Procs :
          LET line == lineOf(loc[p])
          IN  /\ Returns(p, "ToggleSet") /\ ret'[p].err = Nil
              /\ KPull(sysattr, line) = loc[p].was
              => /\ KPull(sysattr', line) = Opposite(loc[p].was)
                 /\ By(line) \in DOMAIN hist /\ hist[By(line)].op = "Toggle"
                    => KPull(sysattr', line) = hist[By(line)].was]_vars

\* the second of two Toggles in a row has put a line back to pull-down
C10_Witness ==
    \E p \in Procs :
        /\ Returned(p, "Toggle") /\ ret[p].err = Nil
        /\ By(ret[p].line) \in DOMAIN hist
        /\ hist[By(ret[p].line)].op = "Toggle"
        /\ hist[By(ret[p].line)].again
        /\ hist[By(ret[p].line)].was = <<"pull-up">>
        /\ KPull(sysattr, ret[p].line) = <<"pull-down">>

(***************************************************************************)
(* Claims about the lines of a chip and the user that drives them.         *)
(***************************************************************************)
\* the line a call of process p names: offset o of chip i of its Sim
Named(p) == LinePathOf(loc[p].s.Chips[loc[p].i], loc[p].o)

\* the steps in which a method writes the pull of a line
PullWriters == {"SetPull", "Pulldown", "Pullup", "ToggleSet"}

\* the steps in which a method reads an attribute of a line
LineReaders == {"Level", "Pull", "Toggle"}

\* the lines of the chips that exist
AllLines == HeldLines(LineOffsets)

\* the user drives the line at `path`
Driven(sa, path) == <<path, "value">> \in DOMAIN sa

\* every attribute the kernel keeps, but the one at key k, is as it was
OnlyKeyChanges(k) ==
    /\ DOMAIN sysattr' \ {k} = DOMAIN sysattr \ {k}
    /\ \A j \in DOMAIN sysattr \ {k} : sysattr'[j] = sysattr[j]

\* C11: SetPull, Pullup, Pulldown and Toggle on (chip c, offset o) write only the
\* pull attribute of line o of chip c: no directory and no configfs attribute
\* changes, the driven value of every line and the pull of every other line of
\* every chip stay as they were, and what a read of them yields is the same.
\* Pull and Level (and the read of Toggle) write nothing.  Level of a line that
\* is driven at 1 returns Active whatever the pull of the line, and a step of
\* the user that drives a line leaves what Pull reads of every line as it was.
C11_PullAndLevelIndependent ==
    [][/\ \A p \in Procs :
            /\ pc[p] \in PullWriters /\ pc'[p] # pc[p] =>
                  /\ OnlyKeyChanges(<<Named(p), "pull">>)
                  /\ UNCHANGED <<dirs, attrs>>
                  /\ \A path \in AllLines :
                        /\ Driven(sysattr', path) = Driven(sysattr, path)
                        /\ path # Named(p) \/ Driven(sysattr, path) =>
                              SysfsShow(sysattr', path, "value") = SysfsShow(sysattr, path, "value")
                        /\ path # Named(p) =>
                              SysfsShow(sysattr', path, "pull") = SysfsShow(sysattr, path, "pull")
            /\ pc[p] \in LineReaders /\ pc'[p] # pc[p] => UNCHANGED <<dirs, attrs, sysattr>>
            /\ /\ Returns(p, "Level")
               /\ Driven(sysattr, Named(p))
               /\ sysattr[<<Named(p), "value">>] = <<DrivenText(LevelActive)>>
               /\ eff'[p].faultAt = {}
               => ret'[p].val = LevelActive /\ ret'[p].err = Nil
       /\ pc' = pc /\ sysattr' # sysattr =>
            \A path \in AllLines :
                SysfsShow(sysattr', path, "pull") = SysfsShow(sysattr, path, "pull")]_vars

\* Level has returned Active for a line that is driven at 1 and whose pull was
\* written down, while the pull of another line was written up
C11_Witness ==
    \E p \in Procs :
        /\ Returned(p, "Level")
        /\ ret[p].val = LevelActive /\ ret[p].err = Nil
        /\ Driven(sysattr, ret[p].line)
        /\ <<ret[p].line, "pull">> \in DOMAIN sysattr
        /\ KPull(sysattr, ret[p].line) = <<"pull-down">>
        /\ \E path \in AllLines \ {ret[p].line} :
              <<path, "pull">> \in DOMAIN sysattr /\ KPull(sysattr, path) = <<"pull-up">>

\* the text of an attribute whose file holds `data`
TextOf(data) == Str(TrimSpace(data))

\* C12: Pull returns Inactive and no error exactly when the text of the line's
\* pull attribute is "pull-down", and Active and no error exactly when it is
\* "pull-up"; for any other text it returns the error "unexpected pull value"
\* with that text, and for a read that failed the error of the read; with either
\* error the level returned is Inactive.
C12_PullDecodes ==
    \A p \in Procs :
        Returned(p, "Pull") =>
            LET r == ret[p]
                text == TextOf(r.data)
            IN  IF r.rerr
                THEN r.err = "read pull" /\ r.val = LevelInactive
                ELSE /\ (r.val = LevelInactive /\ r.err = Nil) <=> text = "pull-down"
                     /\ (r.val = LevelActive /\ r.err = Nil) <=> text = "pull-up"
                     /\ text \notin {"pull-down", "pull-up"} =>
                           r.err = "unexpected pull value: " \o text /\ r.val = LevelInactive

\* Pull has returned the error for a text that names no pull
C12_Witness ==
    \E p \in Procs :
        /\ Returned(p, "Pull") /\ ~ret[p].rerr
        /\ ret[p].data = <<"as-is", "\n">>
        /\ ret[p].err = "unexpected pull value: as-is"

\* C13: Level returns Inactive and no error exactly when the text of the line's
\* value attribute is "0", and Active and no error exactly when it is "1"; for
\* any other text it returns the error "unexpected level value" with that text,
\* and for a read that failed the error of the read.
C13_LevelDecodes ==
    \A p \in Procs :
        Returned(p, "Level") =>
            LET r == ret[p]
                text == TextOf(r.data)
            IN  IF r.rerr
                THEN r.err = "read value" /\ r.val = LevelInactive
                ELSE /\ (r.val = LevelInactive /\ r.err = Nil) <=> text = "0"
                     /\ (r.val = LevelActive /\ r.err = Nil) <=> text = "1"
                     /\ text \notin {"0", "1"} =>
                           r.err = "unexpected level value: " \o text /\ r.val = LevelInactive

\* Level has returned the error for a value attribute that holds the text of a
\* pull
C13_Witness ==
    \E p \in Procs :
        /\ Returned(p, "Level") /\ ~ret[p].rerr
        /\ TextOf(ret[p].data) = "pull-up"
        /\ ret[p].err = "unexpected level value: pull-up"

(***************************************************************************)
(* Claims about what NewSim returns.                                       *)
(***************************************************************************)
\* the call of process p found a symbolic link at the device path of a chip
FoundSymlink(p) == "lstat: symlink" \in eff[p].ops

\* C14: when os.Lstat finds a symbolic link at /dev/<chip name> of any chip,
\* NewSim returns the error that the link masks the device and no Sim; so no
\* call that returns a Sim has found a link at the device path of a chip.
C14_SymlinkMasksDevice ==
    \A p \in Procs :
        /\ Returned(p, "NewSim") /\ FoundSymlink(p) =>
              /\ ret[p].err = "symlink masks device"
              /\ ~ret[p].sim
              /\ ~hdl[p].held
        /\ pc[p] # "idle" /\ FoundSymlink(p) => FALSE
        /\ Returned(p, "NewSim") /\ ret[p].sim => ~FoundSymlink(p)

\* NewSim has returned the error for a link at the device path of the second
\* chip, after the device file of the first chip was found as it should be
C14_Witness ==
    \E p \in Procs :
        /\ Returned(p, "NewSim") /\ FoundSymlink(p)
        /\ "lstat" \in eff[p].ops
        /\ ret[p].err = "symlink masks device"

RECURSIVE SuppliedName(_)
\* the name the caller supplied: that of the last WithName among the options,
\* "" when there is none
SuppliedName(options) ==
    IF options = <<>> THEN ""
    ELSE IF options[Len(options)].kind = "Name" THEN options[Len(options)].name
    ELSE SuppliedName(SubSeq(options, 1, Len(options) - 1))

\* C15: the Sim that NewSim returns has the name the caller supplied when that
\* name is not empty; uniqueName is called exactly when no name or the empty
\* name was supplied, and then the Sim has the name it made; the Sim's root is
\* the gpio-sim directory of configfs joined with the Sim's name.
C15_ResolvedName ==
    [][\A p \in Procs :
          LET supplied == SuppliedName(loc[p].options)
          IN  /\ pc[p] = "name" /\ pc'[p] # pc[p] =>
                    ("uniqueName" \in eff'[p].ops <=> supplied = "")
              /\ pc[p] = "lstat" /\ pc'[p] = "idle" /\ ret'[p].sim =>
                    /\ "uniqueName" \in eff'[p].ops <=> supplied = ""
                    /\ supplied # "" => hdl'[p].s.Name = supplied
                    /\ supplied = "" =>
                          \E k \in 1..Len(issued) : hdl'[p].s.Name = uniqueName(issued[k])
                    /\ hdl'[p].s.configfsPath = Join(DefaultConfigfs, hdl'[p].s.Name)
                    /\ hdl'[p].s.configfsPath \in dirs]_vars

\* NewSim has returned a Sim to a caller that supplied the empty name: the Sim
\* has a name that uniqueName made
C15_Witness ==
    \E p \in Procs :
        /\ Returned(p, "NewSim") /\ ret[p].sim /\ HoldsLive(p)
        /\ "uniqueName" \in eff[p].ops
        /\ hdl[p].s.Name = uniqueName(issued[Len(issued)])
        /\ \E q \in Procs \ {p} : HoldsLive(q) /\ hdl[q].s.Name = "gpiosim_test"

\* the steps of live after which a failure is rolled back, each with the error
\* it returns
StepError ==
    [mkbank |-> "mkdir bank", wlabel |-> "write label", wnum |-> "write num_lines",
     mkline |-> "mkdir line", wname |-> "write line name", mkhog |-> "mkdir hog",
     whogname |-> "write hog name", whogdir |-> "write hog direction",
     wlive |-> "write live", rdev |-> "read dev_name", rchip |-> "read chip_name"]

\* the steps of the teardown
TeardownSteps == {"c_live0", "c_stat", "c_rmhog", "c_rmhogline", "c_rmline", "c_rmbank", "c_rmroot"}

\* C16: when a step of live fails and the teardown runs as rollback, the error
\* NewSim returns is the error of the step that failed: the rollback starts
\* with that error, no step of the teardown changes it, whether the step
\* succeeds or fails, and the return hands it to the caller with no Sim.
C16_RollbackKeepsError ==
    [][\A p \in Procs :
          /\ pc[p] \in DOMAIN StepError /\ pc'[p] = "c_live0" =>
                loc'[p].err = StepError[pc[p]]
          /\ pc[p] \in TeardownSteps /\ loc[p].from = "NewSim" /\ pc'[p] # pc[p] =>
                IF pc'[p] = "idle"
                THEN ret'[p].err = loc[p].err /\ ret'[p].err # Nil /\ ~ret'[p].sim
                ELSE loc'[p].err = loc[p].err]_vars

\* NewSim has returned the error of the write of a label, the rollback's own
\* write of live=0 having failed after it
C16_Witness ==
    \E p \in Procs :
        /\ Returned(p, "NewSim") /\ ret[p].err = "write label"
        /\ "write live=0 failed" \in eff[p].ops

\* the Sim s has all that live stores in it, and its device is live
Populated(s) ==
    /\ s.Name # "" /\ s.configfsPath # <<>> /\ s.Chips # <<>>
    /\ \A i \in 1..Len(s.Chips) :
          /\ s.Chips[i].chipName # "" /\ s.Chips[i].devName # ""
          /\ s.Chips[i].devPath # <<>> /\ s.Chips[i].sysfsPath # <<>>
    /\ IsLive(attrs, s.configfsPath)

\* C17: NewSim returns either a Sim or an error, never both and never
\* neither: with an error the caller holds nothing, and without one it holds a
\* Sim that has its name, its root, its chips with their identifiers and paths,
\* and whose device is live.  NewSimpleton returns the same way: a Simpleton
\* exactly when there is no error.
C17_SimOrError ==
    \A p \in Procs :
        Returned(p, "NewSim") \/ Returned(p, "NewSimpleton") =>
            /\ ret[p].sim <=> ret[p].err = Nil
            /\ ret[p].sim <=> hdl[p].held
            /\ ~ret[p].sim => hdl[p] = NoHandle
            /\ ret[p].sim => Populated(hdl[p].s)
            /\ ret[p].sim => (hdl[p].facade <=> ret[p].op = "NewSimpleton")

\* NewSimpleton has returned the error of a failed write of live and no
\* Simpleton
C17_Witness ==
    \E p \in Procs :
        /\ Returned(p, "NewSimpleton")
        /\ ret[p].err = "write live" /\ ~ret[p].sim
        /\ hdl[p] = NoHandle

(***************************************************************************)
(* Claims about Simpleton.                                                 *)
(***************************************************************************)
\* the description NewSimpleton(n) stands for: one bank labelled "simpleton"
\* of n lines, none of them named or hogged
IsSimpletonBank(cfg, n) ==
    /\ cfg.Label = "simpleton" /\ cfg.NumLines = n
    /\ cfg.Names = EmptyMap /\ cfg.Hogs = EmptyMap

\* the pull a writer's step of process p writes
LevelWritten(p) ==
    IF pc[p] = "Pullup" THEN LevelActive
    ELSE IF pc[p] = "Pulldown" THEN LevelInactive
    ELSE loc[p].level

\* what a read of attribute `name` of the line at `path` returns when no
\* system call fails: the level and the error
ReadOf(path, name) ==
    IF ~SysLineExists(dirs, attrs, path) THEN <<LevelInactive, "read " \o name>>
    ELSE IF name = "pull" THEN PullOf(readAttr(SysfsShow(sysattr, path, name)))
    ELSE LevelOf(readAttr(SysfsShow(sysattr, path, name)))

\* the step of process p, a step of a method of the Simpleton s, is what the
\* method of that name does on chip c at offset o
AsOnChip(p, c, o) ==
    LET line == LinePathOf(c, o)
        quiet == eff'[p].faultAt = {}
    IN  /\ pc'[p] = "idle" /\ pc[p] \notin GetOps => ret'[p].line = line
        /\ pc[p] = "ChipName" => ret'[p].str = c.chipName
        /\ pc[p] = "Config" => ret'[p].cfg = c.cfg
        /\ pc[p] = "DevPath" => ret'[p].path = c.devPath
        /\ pc[p] \in GetOps \cup LineReaders => UNCHANGED <<dirs, attrs, sysattr>>
        /\ pc[p] = "Pull" /\ quiet =>
              ret'[p].val = ReadOf(line, "pull")[1] /\ ret'[p].err = ReadOf(line, "pull")[2]
        /\ pc[p] = "Level" /\ quiet =>
              ret'[p].val = ReadOf(line, "value")[1] /\ ret'[p].err = ReadOf(line, "value")[2]
        /\ pc[p] = "Toggle" /\ quiet =>
              IF ReadOf(line, "pull")[2] # Nil
              THEN pc'[p] = "idle" /\ ret'[p].err = ReadOf(line, "pull")[2]
              ELSE pc'[p] = "ToggleSet" /\ loc'[p].level = Inverse(ReadOf(line, "pull")[1])
        /\ pc[p] \in PullWriters =>
              /\ OnlyKeyChanges(<<line, "pull">>)
              /\ UNCHANGED <<dirs, attrs>>
              /\ quiet /\ SysLineExists(dirs, attrs, line) /\ LevelWritten(p) \in {0, 1} =>
                    /\ ret'[p].err = Nil
                    /\ PullOf(readAttr(SysfsShow(sysattr', line, "pull"))) = <<LevelWritten(p), Nil>>
              /\ ~SysLineExists(dirs, attrs, line) => ret'[p].err = "write pull"

\* C18: a Simpleton that NewSimpleton(n) returns is a Sim of one chip whose
\* bank is labelled "simpleton", has n lines and no named or hogged line, and
\* configfs holds just that bank; and every step of a method of a Simpleton
\* (ChipName, Config, DevPath, Level, Pull, Pulldown, Pullup, SetPull, Toggle) is
\* the step of the method of that name on its chip 0: same value and error
\* returned, same attribute written.
C18_SimpletonIsChipZero ==
    [][\A p \in Procs :
          /\ pc[p] = "simpleton" /\ pc'[p] = "idle" /\ ret'[p].sim =>
                LET sim == hdl'[p].s
                    bank == Join(sim.configfsPath, BankDir(0))
                IN  /\ hdl'[p].facade
                    /\ Len(sim.Chips) = 1
                    /\ \E n \in SimpletonLines :
                          /\ IsSimpletonBank(sim.Chips[1].cfg, n)
                          /\ Atoi(attrs[<<bank, "num_lines">>]) = n
                    /\ attrs[<<bank, "label">>] = <<"simpleton">>
                    /\ Under(sim.configfsPath) = {sim.configfsPath, bank}
          /\ loc[p].via = "Simpleton" /\ pc'[p] # pc[p] =>
                \E h \in Procs :
                    /\ hdl[h].held /\ hdl[h].facade
                    /\ loc[p].s = hdl[h].s
                    /\ AsOnChip(p, hdl[h].s.Chips[1], loc[p].o)]_vars

\* Toggle of a Simpleton has returned with the pull of line 3 of its chip 0
\* left up, and the line is driven
C18_Witness ==
    \E p \in Procs :
        /\ Returned(p, "Toggle") /\ "Simpleton.Toggle" \in eff[p].ops
        /\ ret[p].err = Nil
        /\ \E h \in Procs :
              /\ HoldsLive(h) /\ hdl[h].facade
              /\ ret[p].line = LinePathOf(hdl[h].s.Chips[1], 3)
              /\ KPull(sysattr, ret[p].line) = <<"pull-up">>
              /\ Driven(sysattr, ret[p].line)

(***************************************************************************)
(* Claims about the rollback and the teardown.                             *)
(***************************************************************************)
\* the steps that construct the tree and activate it
ConstructionSteps ==
    {"mkbank", "wlabel", "wnum", "mkline", "wname", "mkhog", "whogname", "whogdir", "wlive"}

\* the errors of those steps
ConstructionErrors == {StepError[label] : label \in ConstructionSteps}

\* C19: when one step of the construction of the tree fails (the creation of a
\* bank, line or hog directory, the write of label, num_lines, a line name, a
\* hog name or direction, or the write of live=1), for whatever bank and with
\* whatever lines already made, and no system call of the rollback fails for a
\* reason from outside, then once NewSim has returned none of the directories
\* the call created exists.  The code does not do that: the device is not live
\* when one of these steps fails, the rollback's write of live=0 is refused,
\* cleanupConfigfs returns on it and every directory made so far stays.
C19_RollbackComplete ==
    \A p \in Procs :
        /\ Returned(p, "NewSim")
        /\ ret[p].err \in ConstructionErrors
        /\ eff[p].faultAt \cap TeardownSteps = {}
        => eff[p].created \cap dirs = {}

\* C20: a teardown whose write of live=0 fails goes on all the same: with the
\* root still there, Close attempts the removal of the directories under it
\* and of the root.
C20_TeardownGoesOn ==
    \A p \in Procs :
        /\ Returned(p, "Close")
        /\ "write live=0 failed" \in eff[p].ops
        /\ Under(hdl[p].s.configfsPath) # {}
        => "remove" \in eff[p].ops

(***************************************************************************)
(* Claims about a teardown that finds parts of the tree gone.              *)
(***************************************************************************)
\* C21: a Close of a Sim that had its chips, whose root exists and in which no
\* system call fails for an outside reason, removes every bank, line and hog
\* directory that is there and then the root, whichever of those directories
\* were gone when it started, and reports no error.
C21_TeardownSkipsMissing ==
    \A p \in Procs :
        /\ Returned(p, "Close") /\ "Close" \in eff[p].ops /\ eff[p].faultAt = {}
        /\ hdl[p].s.configfsPath \in snap[p][1]
        => /\ Under(hdl[p].s.configfsPath) = {}
           /\ "remove" \in eff[p].ops
           /\ ret[p].err = Nil

\* a Close has removed the tree of a Sim whose first bank was gone while its
\* second bank was there
C21_Witness ==
    \E p \in Procs :
        /\ Returned(p, "Close") /\ "Close" \in eff[p].ops /\ eff[p].faultAt = {}
        /\ Join(hdl[p].s.configfsPath, BankDir(0)) \notin snap[p][1]
        /\ Join(hdl[p].s.configfsPath, BankDir(1)) \in snap[p][1]
        /\ Under(hdl[p].s.configfsPath) = {}

(***************************************************************************)
(* Claims about the order of the steps of live.                            *)
(***************************************************************************)
\* the directory path holds all that setupConfigfs makes for the bank cfg
BankBuilt(path, cfg, d, a) ==
    /\ path \in d
    /\ HasAttr(a, path, "label") /\ HasAttr(a, path, "num_lines")
    /\ \A o \in DOMAIN cfg.Names :
          /\ Join(path, LineDir(o)) \in d
          /\ HasAttr(a, Join(path, LineDir(o)), "name")
    /\ \A o \in DOMAIN cfg.Hogs :
          /\ Join(Join(path, LineDir(o)), "hog") \in d
          /\ HasAttr(a, Join(Join(path, LineDir(o)), "hog"), "name")
          /\ HasAttr(a, Join(Join(path, LineDir(o)), "hog"), "direction")

\* the banks first..last of the Sim s are built
BanksBuilt(s, first, last, d, a) ==
    \A i \in first..last : BankBuilt(Join(s.configfsPath, BankDir(i - 1)), s.Chips[i].cfg, d, a)

\* C22: a call of NewSim writes live=1 at most once, when every bank of the
\* description is built and no step of the call has failed; a device becomes
\* live by that write alone; and dev_name and chip_name are read only once the
\* write has succeeded, so the chips of a Sim come up together.
C22_LiveOnceWhenBuilt ==
    [][/\ \A p \in Procs :
             /\ pc[p] = "wlive" /\ pc'[p] # pc[p]
                => /\ "write live=1" \notin eff[p].ops
                   /\ eff[p].faultAt = {} /\ loc[p].err = Nil
                   /\ BanksBuilt(loc[p].s, 1, Len(loc[p].s.Chips), dirs, attrs)
             /\ "write live=1" \in eff'[p].ops \ eff[p].ops => pc[p] = "wlive"
             /\ pc[p] \in {"rdev", "rchip"} /\ pc'[p] # pc[p]
                => /\ "write live=1" \in eff[p].ops
                   /\ "wlive" \notin eff[p].faultAt
                   /\ IsLive(attrs, loc[p].s.configfsPath)
             /\ ("read dev_name" \in eff'[p].ops \ eff[p].ops) => pc[p] = "rdev"
             /\ ("read chip_name" \in eff'[p].ops \ eff[p].ops) => pc[p] = "rchip"
       /\ \A root \in dirs :
             IsLive(attrs', root) /\ ~IsLive(attrs, root)
             => \E p \in Procs : /\ pc[p] = "wlive" /\ pc'[p] = "rdev"
                                 /\ loc[p].s.configfsPath = root]_vars

\* live=1 has been written for a Sim of two banks, the second with a hog, and
\* the call is about to read dev_name
C22_Witness ==
    \E p \in Procs :
        /\ pc[p] = "rdev"
        /\ Len(loc[p].s.Chips) = 2
        /\ loc[p].s.Chips[2].cfg.Hogs # EmptyMap
        /\ IsLive(attrs, loc[p].s.configfsPath)
        /\ "write live=1" \in eff[p].ops

\* the steps of setupConfigfs
SetupSteps == ConstructionSteps \ {"wlive"}

\* what the tree holds when the call with locals l is at a step of
\* setupConfigfs: the banks before bank l.i built, no bank after it begun, and
\* of bank l.i what the steps before this one make and nothing of the ones after
InOrder(label, l, d, a) ==
    LET bank == bankPath(l)
        cfg == cfgOf(l)
        line(o) == Join(bank, LineDir(o))
        hog(o) == Join(line(o), "hog")
        namesDone == \A o \in DOMAIN cfg.Names : line(o) \in d /\ HasAttr(a, line(o), "name")
        noHogYet == \A o \in DOMAIN cfg.Hogs : hog(o) \notin d
    IN  /\ BanksBuilt(l.s, 1, l.i - 1, d, a)
        /\ \A j \in (l.i + 1)..Len(l.s.Chips) : Join(l.s.configfsPath, BankDir(j - 1)) \notin d
        /\ label = "mkbank" => bank \notin d
        /\ label # "mkbank" => bank \in d
        /\ label = "wlabel" => ~HasAttr(a, bank, "label") /\ {x \in d : IsPrefix(bank, x)} = {bank}
        /\ label \notin {"mkbank", "wlabel"} => HasAttr(a, bank, "label")
        /\ label = "wnum" => ~HasAttr(a, bank, "num_lines") /\ {x \in d : IsPrefix(bank, x)} = {bank}
        /\ label \notin {"mkbank", "wlabel", "wnum"} => HasAttr(a, bank, "num_lines")
        /\ label = "mkline" => noHogYet /\ \E o \in l.names : line(o) \notin d
        /\ label = "wname" => /\ noHogYet
                              /\ line(l.o) \in d /\ ~HasAttr(a, line(l.o), "name")
        /\ label \in {"mkhog", "whogname", "whogdir"} => namesDone
        /\ label = "mkhog" => \E o \in l.hogs : hog(o) \notin d
        /\ label = "whogname" => hog(l.o) \in d /\ ~HasAttr(a, hog(l.o), "name")
        /\ label = "whogdir" => /\ HasAttr(a, hog(l.o), "name")
                                /\ ~HasAttr(a, hog(l.o), "direction")
        /\ label \in {"mkhog", "whogname", "whogdir"}
           => \A o \in DOMAIN cfg.Hogs \ (l.hogs \cup {l.o}) :
                 HasAttr(a, hog(o), "name") /\ HasAttr(a, hog(o), "direction")

\* C23: setupConfigfs builds the banks in the order given, each bank whole
\* before the next is begun; within a bank the directory, then label, then
\* num_lines, then the named lines (directory, then name), then the hogged
\* lines (hog directory, then name, then direction); and the first step that
\* fails is the last step of the construction (of os.MkdirAll, the os.Mkdir
\* that fails is followed by its os.Lstat alone).
C23_ConstructionOrder ==
    [][\A p \in Procs :
          /\ pc[p] \in SetupSteps /\ loc[p].mk = NoMk /\ (pc'[p] # pc[p] \/ loc'[p] # loc[p])
             => /\ InOrder(pc[p], loc[p], dirs, attrs)
                /\ eff[p].faultAt = {} /\ loc[p].err = Nil
          /\ pc[p] \in SetupSteps /\ pc'[p] = pc[p] /\ loc'[p] # loc[p]
             => /\ pc[p] \in {"mkbank", "mkhog"} /\ loc'[p].mk # NoMk
                /\ eff'[p].faultAt # {} => loc'[p].mk.at = "lstat"
                /\ attrs' = attrs /\ loc'[p].err = Nil
          /\ pc[p] \in SetupSteps /\ pc'[p] # pc[p]
             => /\ eff[p].faultAt \subseteq {pc[p]} /\ loc[p].err = Nil
                /\ IF eff'[p].faultAt # {} \/ loc'[p].err # Nil
                   THEN pc'[p] = "c_live0" /\ loc'[p].err = StepError[pc[p]]
                   ELSE /\ pc'[p] \in ConstructionSteps
                        /\ loc'[p].i \in {loc[p].i, loc[p].i + 1}
                        /\ loc'[p].i = loc[p].i + 1
                           <=> pc'[p] = "mkbank"
                        /\ pc'[p] \in {"mkbank", "wlive"}
                           => BanksBuilt(loc[p].s, 1, loc[p].i, dirs', attrs')
                        /\ pc'[p] = "wlive" => loc[p].i = Len(loc[p].s.Chips)
          /\ pc[p] \in TeardownSteps /\ loc[p].from = "NewSim"
             => /\ pc'[p] \in TeardownSteps \cup {"idle"}
                /\ eff'[p].created = eff[p].created
                /\ eff'[p].ops \ eff[p].ops
                      \subseteq {"write live=0", "write live=0 failed", "remove", "remove failed"}]_vars

\* the call is about to write the direction of a hog in its second bank, whose
\* named lines are made
C23_Witness ==
    \E p \in Procs :
        /\ pc[p] = "whogdir" /\ loc[p].i = 2
        /\ cfgOf(loc[p]).Names # EmptyMap
        /\ InOrder("whogdir", loc[p], dirs, attrs)

\* no directory lies under path
Childless(d, path) == ~\E c \in d : c # path /\ IsPrefix(path, c)

\* the steps of the teardown that remove a directory
RemovalSteps == TeardownSteps \ {"c_live0", "c_stat"}

\* the directory the removal step that process p takes is after
Target(p) ==
    IF pc[p] = "c_rmhog" THEN hogPath(loc'[p])
    ELSE IF pc[p] = "c_rmhogline" THEN linePath(loc[p])
    ELSE IF pc[p] = "c_rmline" THEN linePath(loc'[p])
    ELSE IF pc[p] = "c_rmbank" THEN bankPath(loc[p])
    ELSE loc[p].s.configfsPath

\* process p tears down a tree made by activation: in a Close of a Sim that
\* has its chips, or in the rollback of NewSim
TearsDown(p) == pc[p] \in TeardownSteps /\ (loc[p].from = "NewSim" \/ "Close" \in eff[p].ops)

\* C24: the teardown writes live=0 before it removes anything; it removes the
\* hog directory of a hogged line and then the line directory, a bank
\* directory when all its lines were gone through, and the root when all the
\* banks were; so no directory is removed, and unless a removal failed for an
\* outside reason none is asked to be removed, while a directory lies under it.
C24_TeardownOrder ==
    [][/\ \A d \in dirs \ dirs' : Childless(dirs, d)
       /\ \A p \in Procs :
             TearsDown(p) /\ pc[p] \in RemovalSteps /\ pc'[p] # pc[p]
             => /\ "write live=0" \in eff[p].ops /\ "write live=0 failed" \notin eff[p].ops
                /\ "remove" \in eff'[p].ops
                /\ dirs \ dirs' \subseteq {Target(p)}
                /\ eff[p].faultAt \cap TeardownSteps = {} => Childless(dirs, Target(p))
                /\ pc[p] = "c_rmhog"
                   => /\ pc'[p] = "c_rmhogline"
                      /\ loc'[p].o \in loc[p].hogs /\ loc'[p].hogs = loc[p].hogs \ {loc'[p].o}
                /\ pc[p] = "c_rmhogline"
                   => /\ Target(p) = Parent(hogPath(loc[p]))
                      /\ loc[p].o \in DOMAIN cfgOf(loc[p]).Hogs \ loc[p].hogs
                /\ pc[p] = "c_rmline" => loc[p].hogs = {}
                /\ pc[p] = "c_rmbank" => loc[p].hogs = {} /\ loc[p].names = {}
                /\ pc[p] = "c_rmroot" => loc[p].i = Len(loc[p].s.Chips) + 1
                /\ pc'[p] = "c_rmhogline" => pc[p] = "c_rmhog"]_vars

\* a Close is about to remove the directory of a named and hogged line, whose
\* hog directory it has removed, with the bank, the root and another line there
C24_Witness ==
    \E p \in Procs :
        /\ pc[p] = "c_rmhogline" /\ "Close" \in eff[p].ops
        /\ HasAttr(attrs, linePath(loc[p]), "name")
        /\ hogPath(loc[p]) \in snap[p][1] /\ hogPath(loc[p]) \notin dirs
        /\ \E d \in dirs : Parent(d) = bankPath(loc[p]) /\ d # linePath(loc[p])
        /\ "write live=0" \in eff[p].ops

\* C25: when Close returns the Sim has no chips, whether the write of live=0
\* failed, a removal failed, or none did; the Sim keeps its name and its root.
C25_ClosedSimHasNoChips ==
    [][\A p \in Procs :
          pc[p] \in TeardownSteps /\ loc[p].from = "Close" /\ pc'[p] = "idle"
          => /\ hdl'[p].s.Chips = <<>>
             /\ hdl'[p].held
             /\ hdl'[p].s.Name = hdl[p].s.Name
             /\ hdl'[p].s.configfsPath = hdl[p].s.configfsPath
             /\ ret'[p].op = "Close"]_vars

\* a Close whose write of live=0 failed has returned: the tree is there and
\* the Sim has no chips
C25_Witness ==
    \E p \in Procs :
        /\ Returned(p, "Close") /\ "Close" \in eff[p].ops
        /\ "write live=0 failed" \in eff[p].ops
        /\ Under(hdl[p].s.configfsPath) # {}
        /\ hdl[p].s.Chips = <<>>

(***************************************************************************)
(* Claims about calls that run side by side.                               *)
(***************************************************************************)
\* C26: Toggle reads the pull and then writes its inverse in a second step
\* that takes no account of the pull the line has by then: the pull it leaves
\* is the opposite of the pull it read, whatever was written in between.  Two
\* Toggles of one line that both read before either writes leave the pull
\* inverted once.
C26_ToggleOverwrites ==
    [][\A p \in Procs :
          LET line == lineOf(loc[p])
          IN  /\ pc[p] = "Toggle" /\ pc'[p] # pc[p]
                 => /\ sysattr' = sysattr
                    /\ pc'[p] = "ToggleSet"
                       => /\ loc'[p].was = KPull(sysattr, line)
                          /\ PullName(loc'[p].level) = Str(Opposite(loc'[p].was))
              /\ Returns(p, "ToggleSet") /\ ret'[p].err = Nil
                 => /\ KPull(sysattr', line) = Opposite(loc[p].was)
                    /\ hist'[By(line)].stale <=> KPull(sysattr, line) # loc[p].was
                    /\ hist'[By(line)].stale => KPull(sysattr', line) = KPull(sysattr, line)]_vars

\* two Toggles of one line have returned without error; the second to write
\* had read pull-down before the first wrote pull-up, and the line is left
\* pulled up
C26_Witness ==
    \E p \in Procs : \E q \in Procs \ {p} :
        /\ Returned(p, "Toggle") /\ ret[p].err = Nil
        /\ Returned(q, "Toggle") /\ ret[q].err = Nil
        /\ ret[p].line = ret[q].line
        /\ By(ret[p].line) \in DOMAIN hist
        /\ hist[By(ret[p].line)].op = "Toggle"
        /\ hist[By(ret[p].line)].again
        /\ hist[By(ret[p].line)].stale
        /\ hist[By(ret[p].line)].was = <<"pull-down">>
        /\ KPull(sysattr, ret[p].line) = <<"pull-up">>

\* the steps of a call that has the root of its Sim: those of live after the
\* check of the name, and those of the teardown
RootedSteps == ConstructionSteps \cup {"rdev", "rchip", "lstat"} \cup TeardownSteps

\* the paths of configfs that a step changes: directories made or removed, and
\* the directories of attributes written, made or dropped
ChangedPaths ==
    (dirs' \ dirs) \cup (dirs \ dirs')
    \cup {k[1] : k \in {j \in DOMAIN attrs' : j \notin DOMAIN attrs \/ attrs'[j] # attrs[j]}}
    \cup {k[1] : k \in DOMAIN attrs \ DOMAIN attrs'}

\* the Sim process q holds, or has in the call it is in
SimOf(q) == IF pc[q] = "idle" THEN hdl[q].s ELSE loc[q].s

\* C27: every directory that a step of NewSim, of its rollback or of Close
\* makes or removes, and every attribute it writes, is at or under the root of
\* the call's own Sim, which is the gpio-sim directory joined with the Sim's
\* name; the steps of NewSim before it has that root change no path of any Sim;
\* so the tree of a Sim of another name is left as it is by every step.
C27_OwnSubtreeOnly ==
    [][\A p \in Procs :
          pc'[p] # pc[p] \/ loc'[p] # loc[p]
          => /\ pc[p] \in RootedSteps
                => /\ \A x \in ChangedPaths : IsPrefix(loc[p].s.configfsPath, x)
                   /\ loc[p].s.configfsPath = Join(DefaultConfigfs, loc[p].s.Name)
             /\ pc[p] \in {"idle", "live", "name", "stat"} \cup FindSteps
                => ChangedPaths \subseteq {DefaultConfigfs}
             /\ \A q \in Procs \ {p} :
                   /\ SimOf(q).configfsPath # <<>>
                   /\ SimOf(q).configfsPath # DefaultConfigfs
                   /\ pc[p] \in RootedSteps => SimOf(q).Name # loc[p].s.Name
                   => TreeOf(SimOf(q).configfsPath, dirs', attrs')
                         = TreeOf(SimOf(q).configfsPath, dirs, attrs)]_vars

\* one caller holds a live Sim of one name while the other has torn down, by
\* Close, the tree of a Sim of another name
C27_Witness ==
    \E p \in Procs : \E q \in Procs \ {p} :
        /\ Returned(p, "Close") /\ "remove" \in eff[p].ops
        /\ Under(hdl[p].s.configfsPath) = {}
        /\ pc[q] = "idle" /\ HoldsLive(q) /\ Populated(hdl[q].s)
        /\ hdl[q].s.Name # hdl[p].s.Name
        /\ BanksBuilt(hdl[q].s, 1, Len(hdl[q].s.Chips), dirs, attrs)

(***************************************************************************)
(* Claims about what is written for a hog.                                 *)
(***************************************************************************)
\* the texts the direction of a hog is written as
DirectionTexts == {<<"input">>, <<"output-low">>, <<"output-high">>}

\* C28: the text written to the direction attribute of a hog is "output-low"
\* for HogDirectionOutputLow, "output-high" for HogDirectionOutputHigh and
\* "input" for HogDirectionInput and for a direction that is none of the
\* constants; the write changes that attribute alone, and no direction
\* attribute ever holds another text.
C28_HogDirectionText ==
    [][/\ \A p \in Procs :
             pc[p] = "whogdir" /\ pc'[p] \in ConstructionSteps
             => LET d == cfgOf(loc[p]).Hogs[loc[p].o].Direction
                    key == <<hogPath(loc[p]), "direction">>
                IN  /\ key \in DOMAIN attrs'
                    /\ d = HogDirectionOutputLow => attrs'[key] = <<"output-low">>
                    /\ d = HogDirectionOutputHigh => attrs'[key] = <<"output-high">>
                    /\ d \notin {HogDirectionOutputLow, HogDirectionOutputHigh}
                       => attrs'[key] = <<"input">>
                    /\ DOMAIN attrs' = DOMAIN attrs \cup {key}
                    /\ \A k \in DOMAIN attrs \ {key} : attrs'[k] = attrs[k]
       /\ \A k \in DOMAIN attrs' : k[2] = "direction" => attrs'[k] \in DirectionTexts]_vars

\* a Sim is held whose hog was given a direction that is none of the
\* constants, and its direction attribute reads "input"
C28_Witness ==
    \E p \in Procs :
        /\ pc[p] = "idle" /\ HoldsLive(p)
        /\ \E i \in 1..Len(hdl[p].s.Chips) : \E o \in DOMAIN hdl[p].s.Chips[i].cfg.Hogs :
              LET key == <<Join(Join(Join(hdl[p].s.configfsPath, BankDir(i - 1)), LineDir(o)), "hog"),
                           "direction">>
              IN  /\ hdl[p].s.Chips[i].cfg.Hogs[o].Direction = HogDirectionUnknown
                  /\ key \in DOMAIN attrs /\ attrs[key] = <<"input">>

(***************************************************************************)
(* Claims about findConfigfsPath.                                          *)
(***************************************************************************)
\* the gpio-sim directories findConfigfsPath may return
GpioSimDirs == {DefaultConfigfs, GpioSimAt(OtherMount)}

\* C29: findConfigfsPath looks at the default root first and returns it when it
\* exists, running no command and reading no mount table; it runs modprobe
\* only when the default root is missing, looks at the default root again when
\* modprobe ended well and returns it when that made it appear; it asks for
\* the mount point of configfs only when modprobe failed or left the default
\* root missing, runs mount only when the mount table names no configfs, and
\* returns the gpio-sim directory at the mount point when that exists; the path
\* it returns exists; it fails only when all three found nothing, and NewSim
\* then returns its error having made and written nothing.
C29_ResolverOrder ==
    [][\A p \in Procs :
          pc[p] \in FindSteps /\ pc'[p] # pc[p]
          => LET t == eff'[p].ops
             IN  /\ "stat default" \in t
                 /\ pc[p] = "find"
                    => IF DefaultConfigfs \in dirs
                       THEN /\ pc'[p] = "stat" /\ loc'[p].s.configfsPath = DefaultConfigfs
                            /\ t \cap {"modprobe", "scan mounts", "mount"} = {}
                            /\ dirs' = dirs
                       ELSE pc'[p] = "modprobe" /\ dirs' = dirs
                 /\ pc[p] = "modprobe"
                    => /\ "modprobe" \in t /\ "scan mounts" \notin t
                       /\ pc'[p] = IF "modprobe failed" \in t THEN "mounts" ELSE "findloaded"
                       /\ dirs' \ dirs \subseteq GpioSimDirs
                 /\ pc[p] = "findloaded"
                    => /\ "modprobe failed" \notin t /\ "scan mounts" \notin t
                       /\ IF DefaultConfigfs \in dirs
                          THEN pc'[p] = "stat" /\ loc'[p].s.configfsPath = DefaultConfigfs
                          ELSE pc'[p] = "mounts"
                       /\ dirs' = dirs
                 /\ pc[p] = "mounts"
                    => /\ "modprobe" \in t
                       /\ "modprobe failed" \in t \/ DefaultConfigfs \notin dirs
                       /\ "mount" \notin t
                       /\ pc'[p] = "mount" => GpioSimDirs \cap dirs = {} /\ "scan mounts" \in t
                       /\ pc'[p] \in {"mount", "findmounted", "idle"}
                       /\ pc'[p] = "idle" <=> "open mounts failed" \in t
                       /\ dirs' = dirs
                 /\ pc[p] = "mount"
                    => /\ {"scan mounts", "mount"} \subseteq t
                       /\ pc'[p] \in {"findmounted", "idle"}
                       /\ dirs' \ dirs \subseteq {DefaultConfigfs}
                 /\ pc[p] = "findmounted"
                    => /\ "scan mounts" \in t
                       /\ pc'[p] = "stat" <=> loc[p].s.configfsPath \in dirs
                       /\ dirs' = dirs
                 /\ pc'[p] = "stat"
                    => /\ loc'[p].s.configfsPath \in dirs'
                       /\ loc'[p].s.configfsPath \in GpioSimDirs
                       /\ "scan mounts" \notin t => loc'[p].s.configfsPath = DefaultConfigfs
                 /\ pc'[p] \notin FindSteps \cup {"stat"}
                    => /\ pc'[p] = "idle" /\ ret'[p].op = "NewSim"
                       /\ ret'[p].err = "gpio-sim module not loaded"
                       /\ ~ret'[p].sim /\ ~hdl'[p].held
                       /\ "modprobe" \in t
                       /\ "scan mounts" \in t \/ "open mounts failed" \in t
                       /\ GpioSimDirs \cap dirs' = {} \/ "open mounts failed" \in t
                       /\ t \cap Mutating = {} /\ eff'[p].created = {}
                       /\ dirs' = dirs
                 /\ attrs' = attrs]_vars

\* NewSim has returned a Sim whose root is in the gpio-sim directory of a
\* configfs mounted at an unusual place, found by the scan of the mount table
C29_Witness ==
    \E p \in Procs :
        /\ Returned(p, "NewSim") /\ ret[p].sim /\ HoldsLive(p)
        /\ {"modprobe", "scan mounts"} \subseteq eff[p].ops
        /\ Parent(hdl[p].s.configfsPath) = GpioSimAt(OtherMount)
        /\ DefaultConfigfs \notin dirs
        /\ Populated(hdl[p].s)

(***************************************************************************)
(* Claims about a line that is both named and hogged.                      *)
(***************************************************************************)
\* the offsets of the bank cfg that have a name and a hog
NamedAndHogged(cfg) == DOMAIN cfg.Names \cap DOMAIN cfg.Hogs

PullTexts == {"pull-down", "pull-up"}

\* C31: a Toggle whose read of the pull fails returns the error of the read,
\* and one that reads a text that names no pull returns "unexpected pull
\* value" with that text; either returns from the read step, having written
\* nothing: every attribute of every line is as it was.  Toggle goes on to its
\* write only with a text that names a pull.
C31_ToggleFailsBeforeWrite ==
    [][\A p \in Procs :
          pc[p] = "Toggle" /\ pc'[p] # pc[p]
          => /\ sysattr' = sysattr /\ dirs' = dirs /\ attrs' = attrs
             /\ "write pull" \notin eff'[p].ops
             /\ pc'[p] \in {"idle", "ToggleSet"}
             /\ pc'[p] = "idle"
                => /\ ret'[p].op = "Toggle" /\ ret'[p].err # Nil
                   /\ ret'[p].rerr => ret'[p].err = "read pull"
                   /\ ~ret'[p].rerr
                      => /\ TextOf(ret'[p].data) \notin PullTexts
                         /\ ret'[p].err = "unexpected pull value: " \o TextOf(ret'[p].data)
             /\ pc'[p] = "ToggleSet"
                => /\ TextOf(loc'[p].read) \in PullTexts
                   /\ loc'[p].level = Inverse(PullOf(TextOf(loc'[p].read))[1])
             /\ ~SysLineExists(dirs, attrs, lineOf(loc[p])) => pc'[p] = "idle" /\ ret'[p].rerr]_vars

\* Toggle has returned the error for a pull attribute that held the text of a
\* level, on a line whose pull is up: nothing was written
C31_Witness ==
    \E p \in Procs :
        /\ Returned(p, "Toggle") /\ ~ret[p].rerr
        /\ ret[p].data = <<"1">>
        /\ ret[p].err = "unexpected pull value: 1"
        /\ "write pull" \notin eff[p].ops
        /\ KPull(sysattr, ret[p].line) = <<"pull-up">>

\* the directories under the root of the Sim process p holds: banks, lines, hogs
LeftBehind(p) == Under(hdl[p].s.configfsPath) \ {hdl[p].s.configfsPath}

\* process p runs a Close on a Sim that a Close has cleared of its chips
ClosesAgain(p) == pc[p] \in TeardownSteps /\ "Close again" \in eff[p].ops

\* C32: a Close that follows a Close on the same Sim finds the chip list
\* empty, whatever the first one left; it writes live=0 and tries the root,
\* and walks no bank: no step of it removes a bank, line or hog directory, and
\* while any of them is left it removes nothing at all, the root included.
\* When it returns the chip list is empty still, so the same holds of the next.
C32_CloseAgainRemovesNothingLeft ==
    [][\A p \in Procs :
          /\ Returned(p, "Close") /\ hdl[p].held /\ pc'[p] \in TeardownSteps
             => "Close again" \in eff'[p].ops /\ loc'[p].s.Chips = <<>>
          /\ ClosesAgain(p) /\ pc'[p] # pc[p]
             => /\ pc[p] \in {"c_live0", "c_rmroot"}
                /\ pc'[p] \in {"c_rmroot", "idle"}
                /\ dirs \ dirs' \subseteq {hdl[p].s.configfsPath}
                /\ dirs' \subseteq dirs
                /\ LeftBehind(p) # {} => dirs' = dirs
                /\ hdl'[p].s.Chips = <<>>]_vars

\* a Close whose write of live=0 failed left the whole tree; the Close after
\* it has written live=0, has tried to remove the root and has returned, and
\* the banks and the root are there
C32_Witness ==
    \E p \in Procs :
        /\ Returned(p, "Close") /\ "Close again" \in eff[p].ops
        /\ "write live=0" \in eff[p].ops /\ "write live=0 failed" \notin eff[p].ops
        /\ "remove failed" \in eff[p].ops
        /\ eff[p].faultAt = {}
        /\ LeftBehind(p) # {}
        /\ hdl[p].s.configfsPath \in dirs

\* C33: no method of a Simpleton (Pull, SetPull, Pullup, Pulldown, Toggle,
\* Level, Config, DevPath, ChipName) is evaluated against an empty chip list,
\* in whatever state the Simpleton is when it is called, after Close too: the
\* call finds chip 0 and does not panic.
C33_SimpletonNeverOnEmptyChips ==
    \A p \in Procs :
        loc[p].via = "Simpleton" => loc[p].s.Chips # <<>> /\ pc[p] # "panic"

====
